---- MODULE Spec2Model ----
(***************************************************************************)
(* A model of the parameter store of python-parampy                        *)
(* (src/parampy/parameters.pyx, class Parameters), together with the parts *)
(* of Quantity (src/parampy/quantities.pyx) and Units (units module) that  *)
(* the store's retrieval, override, bounds and scaling code relies on.     *)
(*                                                                         *)
(* Numbers are exact rationals <<n, d>>.  A value is a record with a tag   *)
(* t: "num" (bare number), "qty" (Quantity), "fn" (function object),       *)
(* "tup" (tuple returned by a function), "err" (a raised exception).       *)
(* Identifiers are sequences of one-character strings, so that the         *)
(* leading-underscore convention can be computed.                          *)
(***************************************************************************)
EXTENDS Integers, Sequences, FiniteSets, TLC

(***************************************************************************)
(* Bounds of the model                                                     *)
(***************************************************************************)
\* number of store operations in one behaviour
MaxOps == 4
\* nesting depth of with-scopes
MaxScopes == 2
\* depth at which the interpreter gives up a recursive evaluation
RecursionLimit == 7

(***************************************************************************)
(* Exact rational arithmetic                                               *)
(***************************************************************************)
Abs(n) == IF n < 0 THEN -n ELSE n

RECURSIVE Gcd(_, _)
Gcd(a, b) == IF b = 0 THEN a ELSE Gcd(b, a % b)

Norm(n, d) ==
    LET g == Gcd(Abs(n), Abs(d))
        s == IF d < 0 THEN -1 ELSE 1
    IN  <<(s * n) \div g, (s * d) \div g>>

R(n) == <<n, 1>>
RAdd(a, b) == Norm(a[1] * b[2] + b[1] * a[2], a[2] * b[2])
RSub(a, b) == Norm(a[1] * b[2] - b[1] * a[2], a[2] * b[2])
RMul(a, b) == Norm(a[1] * b[1], a[2] * b[2])
RDiv(a, b) == Norm(a[1] * b[2], a[2] * b[1])
RLt(a, b) == a[1] * b[2] < b[1] * a[2]
RLe(a, b) == a[1] * b[2] <= b[1] * a[2]
RAbs(a) == <<Abs(a[1]), a[2]>>

RECURSIVE RPow(_, _)
RPow(a, k) ==
    IF k = 0 THEN R(1)
    ELSE IF k < 0 THEN RDiv(R(1), RPow(a, -k))
    ELSE RMul(a, RPow(a, k - 1))

(***************************************************************************)
(* Dictionaries (Python dict) as functions with a finite domain            *)
(***************************************************************************)
EmptyDict == [k \in {} |-> 0]
Put(d, k, v) == [x \in (DOMAIN d) \cup {k} |-> IF x = k THEN v ELSE d[x]]
Del(d, k) == [x \in (DOMAIN d) \ {k} |-> d[x]]
Update(d, e) == [x \in (DOMAIN d) \cup (DOMAIN e) |-> IF x \in DOMAIN e THEN e[x] ELSE d[x]]

(***************************************************************************)
(* Identifiers                                                             *)
(***************************************************************************)
X == <<"x">>
Y == <<"y">>
Z == <<"z">>
Names == {X, Y, Z}
Under(n) == <<"_">> \o n

\* Parameters.__get_pam_name
get_pam_name(param) ==
    IF Len(param) >= 1 /\ param[1] = "_" THEN Tail(param) ELSE param

(***************************************************************************)
(* Units: a map from Unit to exponent                                      *)
(***************************************************************************)
UnitNames == {"m", "km"}
UnitRel(u) == IF u = "km" THEN R(1000) ELSE R(1)

Dimless == [u \in UnitNames |-> 0]
U_m == [u \in UnitNames |-> IF u = "m" THEN 1 ELSE 0]
U_km == [u \in UnitNames |-> IF u = "km" THEN 1 ELSE 0]

\* Units.dimensions: both units have dimension vector {length: 1}
UnitsDimensions(us) == us["m"] + us["km"]
\* Units.rel
UnitsRel(us) == RMul(RPow(UnitRel("m"), us["m"]), RPow(UnitRel("km"), us["km"]))
\* Units.__mul__, Units.__pow__
UnitsMul(a, b) == [u \in UnitNames |-> a[u] + b[u]]
UnitsPow(a, k) == [u \in UnitNames |-> a[u] * k]

Err(e) == [t |-> "err", e |-> e]
Num(r) == [t |-> "num", v |-> r]
Qty(r, us) == [t |-> "qty", v |-> r, u |-> us]
Fn(f) == [t |-> "fn", f |-> f]
Tup(s) == [t |-> "tup", s |-> s]
IsErr(v) == v.t = "err"

\* Units.scale: self.rel / other.rel when the dimension vectors agree
UnitsScale(a, b) ==
    IF UnitsDimensions(a) = UnitsDimensions(b)
    THEN Num(RDiv(UnitsRel(a), UnitsRel(b)))
    ELSE Err("UnitConversionError")

(***************************************************************************)
(* Quantity arithmetic and comparison, as far as parameter functions and   *)
(* the bounds check use them.  Quantity.__truncate rounds to about eleven  *)
(* significant figures; every number of the model has fewer, so it is the  *)
(* identity on them.                                                       *)
(***************************************************************************)
truncate(r) == Norm(r[1], r[2])

\* cmp(l, r) of the two truncated magnitudes
cmp_truncated(l, r) ==
    IF l = r THEN Num(R(0))
    ELSE IF RLt(r, l) THEN Num(R(1))
    ELSE Num(R(-1))

\* Quantity.__cmp__ once other.units.scale(self.units) is known
QuantityCmp_scaled(a, b, scale) ==
    IF IsErr(scale) THEN scale
    ELSE cmp_truncated(truncate(a.v), truncate(RDiv(b.v, scale.v)))

\* Quantity.__cmp__: -1, 0, 1, or the conversion error of Units.scale
QuantityCmp(a, b) == QuantityCmp_scaled(a, b, UnitsScale(a.u, b.u))

\* Quantity.__add__ / __sub__ (reverse = FALSE) and __radd__ / __rsub__
\* (reverse = TRUE) once the scale between the operands is known
QuantityAdd_scaled(a, b, sign, reverse, scale) ==
    IF IsErr(scale) THEN scale
    ELSE IF reverse
    THEN Qty(RAdd(RMul(R(sign), RMul(scale.v, a.v)), b.v), b.u)
    ELSE Qty(RAdd(a.v, RMul(R(sign), RMul(scale.v, b.v))), a.u)

\* Quantity.__add__ / __radd__ / __sub__ / __rsub__ on two Quantity operands
QuantityAdd(a, b, sign, reverse) ==
    QuantityAdd_scaled(a, b, sign, reverse,
                       IF reverse THEN UnitsScale(a.u, b.u) ELSE UnitsScale(b.u, a.u))

\* a + b (sign = 1) or a - b (sign = -1) as Python evaluates it
PyAdd(a, b, sign) ==
    IF IsErr(a) THEN a
    ELSE IF IsErr(b) THEN b
    ELSE IF a.t = "num" /\ b.t = "num"
    THEN Num(RAdd(a.v, RMul(R(sign), b.v)))
    ELSE IF a.t = "qty" /\ b.t = "qty" THEN QuantityAdd(a, b, sign, FALSE)
    ELSE IF a.t = "qty" /\ b.t = "num"
    THEN IF b.v = R(0) THEN a ELSE QuantityAdd(a, Qty(b.v, Dimless), sign, FALSE)
    ELSE IF a.t = "num" /\ b.t = "qty"
    THEN IF a.v = R(0) THEN b ELSE QuantityAdd(b, Qty(a.v, Dimless), sign, TRUE)
    ELSE Err("TypeError")

\* a ** 2
PySquare(a) ==
    IF IsErr(a) THEN a
    ELSE IF a.t = "num" THEN Num(RMul(a.v, a.v))
    ELSE IF a.t = "qty" THEN Qty(RMul(a.v, a.v), UnitsPow(a.u, 2))
    ELSE Err("TypeError")

RECURSIVE PySum(_, _)
PySum(args, n) ==
    IF n = 1 THEN args[1] ELSE PyAdd(PySum(args, n - 1), args[n], 1)

(***************************************************************************)
(* Function objects given to the store.  args is co_varnames[:argcount],   *)
(* dflt says that the defaults are (None,), body names the code:           *)
(*   "sq":  lambda a: a**2                                                 *)
(*   "sum": lambda: 1                                                      *)
(*          lambda a, ..: a + ..                                           *)
(*          lambda a, s=None: a if s is None else s                        *)
(*          lambda a, b, s=None: a + b if s is None else [a, s - a]        *)
(***************************************************************************)
F(args, dflt, body) == [args |-> args, dflt |-> dflt, body |-> body]

\* the list [a, .., s - (a + ..)] an invertible sum returns for s
inverse_of_sum(args, n, last) ==
    IF IsErr(last) THEN last
    ELSE Tup([i \in 1..(n - 1) |-> IF i = n - 1 THEN last ELSE args[i]])

\* f(*args)
Call(f, args) ==
    IF Len(args) > Len(f.args) \/ (Len(args) < Len(f.args) - (IF f.dflt THEN 1 ELSE 0))
    THEN Err("TypeError")
    ELSE IF f.body = "sq" THEN PySquare(args[1])
    ELSE IF f.dflt /\ Len(args) = Len(f.args)
    THEN IF Len(args) = 1 THEN args[1]
         ELSE IF Len(args) = 2 THEN args[2]
         ELSE inverse_of_sum(args, Len(args),
                             PyAdd(args[Len(args)], PySum(args, Len(args) - 2), -1))
    ELSE IF Len(args) = 0 THEN Num(R(1)) ELSE PySum(args, Len(args))

\* Parameters.__function_getargs
function_getargs(f) == f.args

(***************************************************************************)
(* The store.  S is the part of a Parameters object that retrieval reads:  *)
(* parameters, parameters_spec, parameters_bounds, scalings,               *)
(* default_scaled, and order, the iteration order of the dicts.  K is the  *)
(* part retrieval writes: the caches and the warnings emitted so far.      *)
(* Every operation returns Res(result, K).  An operation that continues    *)
(* with the outcome of a call hands it to an operator of its own, named    *)
(* after the operation, which holds the rest of the code.                  *)
(***************************************************************************)
Res(r, c) == [r |-> r, c |-> c]
NoParam == << >>
Warn(K, w) == [K EXCEPT !.warn = @ \cup {w}]

\* the keys of dict d in iteration order
Keys(order, d) ==
    SelectSeq(order \o [i \in 1..Len(order) |-> Under(order[i])],
              LAMBDA k : k \in DOMAIN d)

SeqToSet(s) == {s[i] : i \in 1..Len(s)}
Front(s) == SubSeq(s, 1, Len(s) - 1)

\* the scaling of dimension length: self.__scalings.get(dim, basis unit)
length_scaling(S) ==
    IF "length" \in DOMAIN S.scalings THEN S.scalings["length"] ELSE Qty(R(1), U_m)

\* scaling ** power
QuantityPow(q, power) == Qty(RPow(q.v, power), UnitsPow(q.u, power))

\* Parameters.__basis_scale; the catalog basis of length is the metre
basis_scale(S, unit) ==
    IF UnitsDimensions(unit) = 0 THEN Qty(R(1), Dimless)
    ELSE QuantityPow(length_scaling(S), UnitsDimensions(unit))

\* the end of Parameters.__unit_scaling: remember and return
unit_scaling_store(K, unit, scaling) ==
    Res(scaling, [K EXCEPT !.scaling_cache = Put(@, unit, scaling)])

\* scale.value * scale.units.scale(unit)
unit_scaling_of(K, unit, scale) ==
    unit_scaling_store(K, unit, RMul(scale.v, UnitsScale(scale.u, unit).v))

\* Parameters.__unit_scaling
unit_scaling(S, K, unit) ==
    IF unit \in DOMAIN K.scaling_cache THEN Res(K.scaling_cache[unit], K)
    ELSE unit_scaling_of(K, unit, basis_scale(S, unit))

\* declared units of a parameter, dimensionless if none
spec_unit(S, param) ==
    IF param \in DOMAIN S.parameters_spec THEN S.parameters_spec[param] ELSE Dimless

\* bound[0] <= value_comp and bound[1] >= value_comp (inclusive), or the
\* strict form, given the two comparisons; hi is looked at only if lo passes
in_bound_of(inclusive, lo, hi) ==
    IF IsErr(lo) THEN lo
    ELSE IF inclusive
    THEN IF lo.v = R(1) THEN Num(R(0))
         ELSE IF IsErr(hi) THEN hi
         ELSE IF hi.v = R(-1) THEN Num(R(0)) ELSE Num(R(1))
    ELSE IF lo.v # R(-1) THEN Num(R(0))
         ELSE IF IsErr(hi) THEN hi
         ELSE IF hi.v # R(1) THEN Num(R(0)) ELSE Num(R(1))

\* one interval of the inclusive / exclusive test of Parameters.__check_bounds
in_bound(bound, value_comp, inclusive) ==
    in_bound_of(inclusive, QuantityCmp(bound[1], value_comp),
                QuantityCmp(bound[2], value_comp))

RECURSIVE in_bounds(_, _, _, _)
\* the loop over bounds.bounds after the test of interval i
in_bounds_next(bs, i, value_comp, inclusive, r) ==
    IF IsErr(r) THEN r
    ELSE IF r.v = R(1) THEN r
    ELSE in_bounds(bs, i + 1, value_comp, inclusive)

\* the loop over bounds.bounds: 1 if some interval holds value_comp
in_bounds(bs, i, value_comp, inclusive) ==
    IF i > Len(bs) THEN Num(R(0))
    ELSE in_bounds_next(bs, i, value_comp, inclusive,
                        in_bound(bs[i], value_comp, inclusive))

\* the edges of all intervals, in order
RECURSIVE blist(_)
blist(bs) == IF Len(bs) = 0 THEN << >> ELSE <<bs[1][1], bs[1][2]>> \o blist(Tail(bs))

RMin(s) == CHOOSE m \in SeqToSet(s) : \A o \in SeqToSet(s) : RLe(m, o)

\* np.array(blist)[np.where(dlist == np.min(dlist))]: the magnitude of the
\* first edge at the least distance
nearest(bl, dlist, least) ==
    bl[CHOOSE i \in 1..Len(bl) : dlist[i] = least /\ \A j \in 1..(i - 1) : dlist[j] # least].v

\* the clip branch of Parameters.__check_bounds once the distances are known.
\* numpy reads a Quantity through the __array_* attributes that
\* Quantity.__getattr__ forwards to its value, so v is the array of the
\* magnitudes of the nearest edges; the bounds given to the model are single
\* intervals lo < hi, so it has one element, identified with that number.
\* For a Quantity value the code reads v.value and v.unit, which an array
\* does not have.
check_bounds_clip(K1, value, bl, diffs) ==
    IF \E i \in 1..Len(bl) : IsErr(diffs[i])
    THEN Res(Err("UnitConversionError"), K1)
    ELSE IF value.t # "qty"
    THEN Res(Num(nearest(bl, [i \in 1..Len(bl) |-> RAbs(diffs[i].v)],
                         RMin([i \in 1..Len(bl) |-> RAbs(diffs[i].v)]))), K1)
    ELSE Res(Err("AttributeError"), K1)

\* x - value_comp for every edge x
edge_distances(bl, value_comp) ==
    [i \in 1..Len(bl) |-> QuantityAdd(bl[i], value_comp, -1, FALSE)]

\* Parameters.__check_bounds that only warns where it should raise
check_bounds_outcome_lenient(K, bounds, value, value_comp, inside) ==
    IF IsErr(inside) THEN Res(inside, K)
    ELSE IF inside.v = R(1) THEN Res(value, K)
    ELSE IF bounds.clip
    THEN check_bounds_clip(IF bounds.error THEN Warn(K, "ParameterOutsideBoundsWarning") ELSE K,
                           value, blist(bounds.bounds),
                           edge_distances(blist(bounds.bounds), value_comp))
    ELSE Res(value, Warn(K, "ParameterOutsideBoundsWarning"))

\* Parameters.__check_bounds once it is known whether an interval holds the value
check_bounds_outcome(K, bounds, value, value_comp, inside) ==
    IF IsErr(inside) THEN Res(inside, K)
    ELSE IF inside.v = R(1) THEN Res(value, K)
    ELSE IF bounds.clip
    THEN check_bounds_clip(IF bounds.error THEN Warn(K, "ParameterOutsideBoundsWarning") ELSE K,
                           value, blist(bounds.bounds),
                           edge_distances(blist(bounds.bounds), value_comp))
    ELSE IF bounds.error THEN Res(Err("ParameterOutsideBoundsError"), K)
    ELSE Res(value, Warn(K, "ParameterOutsideBoundsWarning"))

\* Parameters.__check_bounds with value_comp, the value as a Quantity
check_bounds_of(K, bounds, value, value_comp) ==
    check_bounds_outcome(K, bounds, value, value_comp,
                         in_bounds(bounds.bounds, 1, value_comp, bounds.inclusive))

\* Parameters.__check_bounds
check_bounds(S, K, bounds, value) ==
    check_bounds_of(K, bounds, value,
                    IF value.t # "qty" THEN Qty(value.v, spec_unit(S, bounds.param))
                    ELSE value)

\* q.value / self.__unit_scaling(q.units)
scaled_by(value, us) == Res(Num(RDiv(value.v, us.r)), us.c)

\* Quantity(value, unit): the number taken as a value in the unit itself
quantity_in_unit(value, unit, us) == Res(Qty(value.v, unit), us.c)

\* Quantity(value * self.__unit_scaling(unit), unit)
quantity_in(value, unit, us) == Res(Qty(RMul(value.v, us.r), unit), us.c)

\* the end of Parameters.__get_quantity: the bounds check of q
get_quantity_bounded(S, param, q) ==
    IF IsErr(q.r) THEN q
    ELSE IF ~S.parameters_bounds.none /\ param # NoParam
            /\ param \in DOMAIN S.parameters_bounds.d
    THEN check_bounds(S, q.c, S.parameters_bounds.d[param], q.r)
    ELSE q

\* the unit Parameters.__get_quantity gives a bare number
number_unit(S, param) == IF param = NoParam THEN Dimless ELSE spec_unit(S, param)

\* Parameters.__get_quantity (the unit argument is not used by the store's
\* own retrieval and assignment paths)
get_quantity(S, K, value, param, scaled) ==
    IF value.t = "fn" \/ value.t = "err" THEN Res(value, K)
    ELSE IF value.t = "tup" THEN Res(Err("QuantityCoercionError"), K)
    ELSE get_quantity_bounded(S, param,
             IF scaled
             THEN IF value.t = "qty" THEN scaled_by(value, unit_scaling(S, K, value.u))
                  ELSE Res(value, K)
             ELSE IF value.t = "qty" THEN Res(value, K)
                  ELSE quantity_in(value, number_unit(S, param),
                                   unit_scaling(S, K, number_unit(S, param))))

(***************************************************************************)
(* Parameter resolution                                                    *)
(***************************************************************************)
Dict(d) == [t |-> "dict", d |-> d]
List(s) == [t |-> "list", s |-> s]
None == [t |-> "none"]

\* list(map(self.__get_pam_name, self.__function_getargs(value)))
dep_names(value) ==
    IF value.t = "fn"
    THEN [i \in 1..Len(function_getargs(value.f)) |-> get_pam_name(function_getargs(value.f)[i])]
    ELSE << >>

\* Parameters.__get_pam_deps
get_pam_deps(S, K, param) ==
    IF param \in DOMAIN K.cache_deps THEN Res(List(K.cache_deps[param]), K)
    ELSE IF param \notin DOMAIN S.parameters THEN Res(List(<< >>), K)
    ELSE Res(List(dep_names(S.parameters[param])),
             [K EXCEPT !.cache_deps = Put(@, param, dep_names(S.parameters[param]))])

RECURSIVE sups_loop(_, _, _, _, _, _)
\* the loop of Parameters.__get_pam_sups after the dependencies d of keys[i]
sups_loop_next(S, param, keys, i, sups, d) ==
    sups_loop(S, d.c, param, keys, i + 1,
              IF param \in SeqToSet(d.r.s) THEN Append(sups, keys[i]) ELSE sups)

\* the loop of Parameters.__get_pam_sups over self.__parameters
sups_loop(S, K, param, keys, i, sups) ==
    IF i > Len(keys) THEN Res(List(sups), K)
    ELSE sups_loop_next(S, param, keys, i, sups, get_pam_deps(S, K, keys[i]))

\* the end of Parameters.__get_pam_sups: remember and return
get_pam_sups_store(S, param, l) ==
    IF Len(l.r.s) > 0 \/ param \in DOMAIN S.parameters
    THEN Res(l.r, [l.c EXCEPT !.cache_sups = Put(@, param, l.r.s)])
    ELSE l

\* Parameters.__get_pam_sups
get_pam_sups(S, K, param) ==
    IF param \in DOMAIN K.cache_sups THEN Res(List(K.cache_sups[param]), K)
    ELSE get_pam_sups_store(S, param,
                            sups_loop(S, K, param, Keys(S.order, S.parameters), 1, << >>))

\* Quantity.__eq__ given cmp(a, b)
eq_of_cmp(c) == IF IsErr(c) THEN c ELSE Num(IF c.v = R(0) THEN R(1) ELSE R(0))

\* == on two values, as the comparison of two argument lists applies it
PyEq(a, b) ==
    IF a.t = "qty" /\ b.t = "qty" THEN eq_of_cmp(QuantityCmp(a, b))
    ELSE Num(IF a.t = b.t /\ a = b THEN R(1) ELSE R(0))

RECURSIVE ListEq(_, _, _)
\* list == list after the comparison e of the elements at i
ListEq_next(a, b, i, e) ==
    IF IsErr(e) THEN e
    ELSE IF e.v = R(0) THEN e
    ELSE ListEq(a, b, i + 1)

\* list == list
ListEq(a, b, i) ==
    IF Len(a) # Len(b) THEN Num(R(0))
    ELSE IF i > Len(a) THEN Num(R(1))
    ELSE ListEq_next(a, b, i, PyEq(a[i], b[i]))

RECURSIVE get_param(_, _, _, _, _, _)
RECURSIVE get_params(_, _, _, _, _, _, _, _)
RECURSIVE eval_function(_, _, _, _, _)
RECURSIVE inverse_loop(_, _, _, _, _, _)

\* inverse[pam] = the coerced r[i], then on to the next dependency
inverse_loop_next(S, deps, r, i, inverse, q) ==
    IF IsErr(q.r) THEN q
    ELSE inverse_loop(S, q.c, deps, r, i + 1, Put(inverse, get_pam_name(deps[i]), q.r))

\* the loop of Parameters.__eval_function that coerces the returned values
inverse_loop(S, K, deps, r, i, inverse) ==
    IF i > Len(deps) - 1 THEN Res(Dict(inverse), K)
    ELSE IF i > Len(r) THEN Res(Err("IndexError"), K)
    ELSE inverse_loop_next(S, deps, r, i, inverse,
                           get_quantity(S, K, r[i], get_pam_name(deps[i]), FALSE))

\* Parameters.__cache_func_handler, read: the outcome of
\* self.__cache_funcs[param].conditions == params
cache_func_same(K, param, same) ==
    IF IsErr(same) THEN same
    ELSE IF same.v = R(1) THEN K.cache_funcs[param].value
    ELSE None

\* Parameters.__cache_func_handler, read
cache_func_read(K, param, params) ==
    IF param \notin DOMAIN K.cache_funcs THEN None
    ELSE IF K.cache_funcs[param].t = "none" THEN None
    ELSE cache_func_same(K, param, ListEq(K.cache_funcs[param].conditions, params, 1))

\* Parameters.__cache_func_handler, write
cache_func_write(K, param, value, params) ==
    IF param \in DOMAIN K.cache_funcs
    THEN [K EXCEPT !.cache_funcs =
             Put(@, param, [t |-> "memo", value |-> value, conditions |-> params])]
    ELSE K

\* Parameters.__eval_function, forward: the value f returned
eval_function_value(K, param, args, value) ==
    IF IsErr(value) THEN Res(value, K)
    ELSE Res(Dict([k \in {param} |-> value]), cache_func_write(K, param, value, args))

\* Parameters.__eval_function, forward: use the memo or call f
eval_function_forward(S, K, param, args, cached) ==
    IF cached.t = "err" THEN Res(cached, K)
    ELSE IF cached.t # "none" THEN Res(Dict([k \in {param} |-> cached]), K)
    ELSE eval_function_value(K, param, args, Call(S.parameters[param].f, args))

\* Parameters.__eval_function, inverse: r0 is what f returned
eval_function_inverse(S, K, deps, r0) ==
    IF IsErr(r0) THEN Res(r0, K)
    ELSE inverse_loop(S, K, deps, IF r0.t = "tup" THEN r0.s ELSE <<r0>>, 1, EmptyDict)

\* Parameters.__eval_function with the argument values at hand
eval_function_call(S, K, param, kwargs, deps, args) ==
    IF param \in DOMAIN kwargs
    THEN eval_function_inverse(S, K, deps, Call(S.parameters[param].f, args))
    ELSE eval_function_forward(S, K, param, args, cache_func_read(K, param, args))

\* Parameters.__eval_function after self.__get_params(deps_, kwargs)
eval_function_params(S, param, kwargs, deps, deps_, ps) ==
    IF IsErr(ps.r) THEN ps
    ELSE eval_function_call(S, ps.c, param, kwargs, deps,
                            [i \in 1..Len(deps_) |-> ps.r.d[get_pam_name(deps_[i])]])

\* deps without the trailing self-reference, when the function is called forward
without_self(param, kwargs, deps0, deps) ==
    IF param \notin DOMAIN kwargs /\ deps0[Len(deps0)] = param THEN Front(deps) ELSE deps

\* Parameters.__eval_function once the dependencies d are known
eval_function_deps(S, param, kwargs, fuel, d) ==
    IF Len(d.r.s) = 0 THEN Res(Err("IndexError"), d.c)
    ELSE IF param \in DOMAIN kwargs /\ d.r.s[Len(d.r.s)] # param
    THEN Res(Err("ParameterNotInvertableError"), d.c)
    ELSE eval_function_params(
             S, param, kwargs,
             without_self(param, kwargs, d.r.s, d.r.s),
             without_self(param, kwargs, d.r.s, function_getargs(S.parameters[param].f)),
             get_params(S, d.c,
                        without_self(param, kwargs, d.r.s,
                                     function_getargs(S.parameters[param].f)),
                        1, EmptyDict, kwargs, S.default_scaled, fuel))

\* Parameters.__eval_function
eval_function(S, K, param, kwargs, fuel) ==
    eval_function_deps(S, param, kwargs, fuel, get_pam_deps(S, K, param))

\* rv[name] = value, then on to the next argument
get_params_next(S, args, i, rv, kwargs, ds, fuel, g) ==
    IF IsErr(g.r) THEN g
    ELSE get_params(S, g.c, args, i + 1, Put(rv, get_pam_name(args[i]), g.r),
                    kwargs, ds, fuel)

\* Parameters.__get_params
get_params(S, K, args, i, rv, kwargs, ds, fuel) ==
    IF i > Len(args) THEN Res(Dict(rv), K)
    ELSE get_params_next(S, args, i, rv, kwargs, ds, fuel,
                         get_param(S, K, args[i], kwargs, ds, fuel))

\* self.__get_quantity(self.__eval_function(arg, kwargs)[arg], ..)
get_param_function(S, a, scaled, ev) ==
    IF IsErr(ev.r) THEN ev
    ELSE get_quantity(S, ev.c, ev.r.d[a], a, scaled)

\* self.__cache_scaled[arg] = q
get_param_remember(a, q) ==
    IF IsErr(q.r) THEN q
    ELSE Res(q.r, [q.c EXCEPT !.cache_scaled = Put(@, a, q.r)])

\* Parameters.__get_param for name a that remembers a scaled override as well
get_param_named_caching(S, K, a, kwargs, scaled, fuel) ==
    IF a \in DOMAIN kwargs
    THEN IF scaled THEN get_param_remember(a, get_quantity(S, K, kwargs[a], a, TRUE))
         ELSE get_quantity(S, K, kwargs[a], a, FALSE)
    ELSE IF S.parameters[a].t = "fn"
    THEN get_param_function(S, a, scaled, eval_function(S, K, a, kwargs, fuel - 1))
    ELSE IF scaled
    THEN IF a \in DOMAIN K.cache_scaled THEN Res(K.cache_scaled[a], K)
         ELSE get_param_remember(a, get_quantity(S, K, S.parameters[a], a, TRUE))
    ELSE get_quantity(S, K, S.parameters[a], a, FALSE)

\* Parameters.__get_param for name a, stored or overridden, in the form scaled
get_param_named(S, K, a, kwargs, scaled, fuel) ==
    IF a \in DOMAIN kwargs THEN get_quantity(S, K, kwargs[a], a, scaled)
    ELSE IF S.parameters[a].t = "fn"
    THEN get_param_function(S, a, scaled, eval_function(S, K, a, kwargs, fuel - 1))
    ELSE IF scaled
    THEN IF a \in DOMAIN K.cache_scaled THEN Res(K.cache_scaled[a], K)
         ELSE get_param_remember(a, get_quantity(S, K, S.parameters[a], a, TRUE))
    ELSE get_quantity(S, K, S.parameters[a], a, FALSE)

\* Parameters.__get_param for a name; ds is the default_scaled in force.
\* A name that is neither overridden nor stored goes to Parameters.__eval,
\* which rejects a lone unknown symbol.
get_param(S, K, arg, kwargs, ds, fuel) ==
    IF fuel = 0 THEN Res(Err("RuntimeError"), K)
    ELSE IF arg = <<"_">> THEN Res(Err("ValueError"), K)
    ELSE IF get_pam_name(arg) \notin DOMAIN kwargs /\ get_pam_name(arg) \notin DOMAIN S.parameters
    THEN Res(Err("ParameterInvalidError"), K)
    ELSE get_param_named(S, K, get_pam_name(arg), kwargs,
                         IF arg[1] = "_" THEN ~ds ELSE ds, fuel)

\* Parameters.__eval for a function: call it with the values of its arguments
eval_call(f, deps, ps) ==
    IF IsErr(ps.r) THEN ps
    ELSE Res(Call(f, [i \in 1..Len(deps) |-> ps.r.d[get_pam_name(deps[i])]]), ps.c)

\* Parameters.__eval for a value that is not a name
eval(S, K, arg, kwargs, ds, fuel) ==
    IF arg.t = "fn"
    THEN eval_call(arg.f, function_getargs(arg.f),
                   get_params(S, K, function_getargs(arg.f), 1, EmptyDict, kwargs,
                              S.default_scaled, fuel))
    ELSE IF arg.t = "qty" THEN get_quantity(S, K, arg, NoParam, ds)
    ELSE IF arg.t = "num" THEN Res(arg, K)
    ELSE Res(Err("ParameterInvalidError"), K)

(***************************************************************************)
(* Override processing                                                     *)
(***************************************************************************)
\* the inner loop of pam_ordering over the dependencies of one parameter
RECURSIVE dep_loop(_, _, _, _, _)
dep_loop(dependencies, deps, j, pam_order, new) ==
    IF j > Len(deps) THEN [po |-> pam_order, new |-> new]
    ELSE IF deps[j] \notin SeqToSet(pam_order)
            /\ (deps[j] \notin DOMAIN dependencies
                \/ dependencies[deps[j]] \ SeqToSet(pam_order) # {})
    THEN dep_loop(dependencies, deps, j + 1, Append(pam_order, deps[j]), TRUE)
    ELSE dep_loop(dependencies, deps, j + 1, pam_order, new)

RECURSIVE pam_pass(_, _, _, _, _, _)
\* the end of one round of the outer loop: append pam if all its
\* dependencies are placed
pam_pass_next(order, dependencies, pams, i, inner) ==
    IF dependencies[pams[i]] \ SeqToSet(inner.po) = {}
    THEN pam_pass(order, dependencies, pams, i + 1, Append(inner.po, pams[i]), TRUE)
    ELSE pam_pass(order, dependencies, pams, i + 1, inner.po, inner.new)

\* one pass of pam_ordering over dependencies.items()
pam_pass(order, dependencies, pams, i, pam_order, new) ==
    IF i > Len(pams) THEN [po |-> pam_order, new |-> new]
    ELSE IF pams[i] \in SeqToSet(pam_order)
    THEN pam_pass(order, dependencies, pams, i + 1, pam_order, new)
    ELSE pam_pass_next(order, dependencies, pams, i,
                       dep_loop(dependencies,
                                SelectSeq(order, LAMBDA k : k \in dependencies[pams[i]]),
                                1, pam_order, new))

RECURSIVE pam_ordering(_, _, _)
\* the end of pam_ordering: fail, return or go round again
pam_ordering_of(order, dependencies, pass) ==
    IF ~pass.new /\ (DOMAIN dependencies) \ SeqToSet(pass.po) # {}
    THEN Err("ValueError")
    ELSE IF ~pass.new THEN List(pass.po)
    ELSE pam_ordering(order, dependencies, pass.po)

\* pam_ordering, the local function of Parameters.__process_override
pam_ordering(order, dependencies, pam_order) ==
    pam_ordering_of(order, dependencies,
                    pam_pass(order, dependencies, Keys(order, dependencies), 1,
                             pam_order, FALSE))

\* the dependencies dict built from the function-valued overrides
override_dependencies(kwargs, restrict) ==
    [pam \in {p \in SeqToSet(restrict) : kwargs[p].t = "fn"} |->
        {get_pam_name(function_getargs(kwargs[pam].f)[i]) :
            i \in 1..Len(function_getargs(kwargs[pam].f))}]

RECURSIVE evaluate_overrides(_, _, _, _, _, _)
\* kwargs[pam] = v, then on to the next name of pam_order
evaluate_overrides_next(S, kwargs, pam_order, i, fuel, v) ==
    IF IsErr(v.r) THEN v
    ELSE evaluate_overrides(S, v.c, Put(kwargs, pam_order[i], v.r), pam_order, i + 1, fuel)

\* "First evaluate functions": kwargs[pam] = self.__get_param(val, new)
evaluate_overrides(S, K, kwargs, pam_order, i, fuel) ==
    IF i > Len(pam_order) THEN Res(Dict(kwargs), K)
    ELSE IF pam_order[i] \notin DOMAIN kwargs
    THEN evaluate_overrides(S, K, kwargs, pam_order, i + 1, fuel)
    ELSE evaluate_overrides_next(S, kwargs, pam_order, i, fuel,
                                 eval(S, K, kwargs[pam_order[i]], Del(kwargs, pam_order[i]),
                                      S.default_scaled, fuel))

\* qa != qb
scaled_differs_of(qa, qb) == Res(qa.r # qb.r, qb.c)

\* qa != self.__get_quantity(b, scaled=True)
scaled_differs_from(S, qa, b) ==
    scaled_differs_of(qa, get_quantity(S, qa.c, b, NoParam, TRUE))

\* the comparison of line 724: both sides as scaled values
scaled_differs(S, K, a, b) ==
    scaled_differs_from(S, get_quantity(S, K, a, NoParam, TRUE), b)

RECURSIVE overspecified(_, _, _, _, _, _, _)
\* .. or key in new and vals[key] != new[key]: c2 is that comparison
overspecified_new(S, vals, keys, i, kwargs, new, c2) ==
    IF c2.r THEN Res(TRUE, c2.c)
    ELSE overspecified(S, c2.c, vals, keys, i + 1, kwargs, new)

\* key in kwargs and vals[key] != kwargs[key]: c1 is that comparison
overspecified_kwargs(S, vals, keys, i, kwargs, new, c1) ==
    IF c1.r THEN Res(TRUE, c1.c)
    ELSE overspecified_new(S, vals, keys, i, kwargs, new,
                           IF keys[i] \in DOMAIN new
                           THEN scaled_differs(S, c1.c, vals[keys[i]], new[keys[i]])
                           ELSE Res(FALSE, c1.c))

\* the loop over vals that looks for a contradicting value
overspecified(S, K, vals, keys, i, kwargs, new) ==
    IF i > Len(keys) THEN Res(FALSE, K)
    ELSE overspecified_kwargs(S, vals, keys, i, kwargs, new,
                              IF keys[i] \in DOMAIN kwargs
                              THEN scaled_differs(S, K, vals[keys[i]], kwargs[keys[i]])
                              ELSE Res(FALSE, K))

RECURSIVE ratify(_, _, _, _, _, _, _)
\* new.update(vals) without the comparison of the values
ratify_unchecked(S, kwargs, restrict, i, new, fuel, vals, o) ==
    ratify(S, o.c, kwargs, restrict, i + 1, Update(new, vals), fuel)

\* raise ParameterOverSpecifiedError, or new.update(vals)
ratify_checked(S, kwargs, restrict, i, new, fuel, vals, o) ==
    IF o.r THEN Res(Err("ParameterOverSpecifiedError"), o.c)
    ELSE ratify(S, o.c, kwargs, restrict, i + 1, Update(new, vals), fuel)

\* vals = self.__eval_function(pam, kwargs), then the comparison of its values
ratify_inverted(S, kwargs, restrict, i, new, fuel, vals) ==
    IF IsErr(vals.r) THEN vals
    ELSE ratify_checked(S, kwargs, restrict, i, new, fuel, vals.r.d,
                        overspecified(S, vals.c, vals.r.d, Keys(S.order, vals.r.d), 1,
                                      kwargs, new))

\* an overridden function: invert it if it names itself, refuse if not
ratify_function_strict(S, kwargs, restrict, i, new, fuel, d) ==
    IF restrict[i] \in SeqToSet(d.r.s)
    THEN ratify_inverted(S, kwargs, restrict, i, new, fuel,
                         eval_function(S, d.c, restrict[i], kwargs, fuel))
    ELSE Res(Err("ParameterNotInvertableError"), d.c)

\* an overridden function: invert it if it names itself, warn if not
ratify_function(S, kwargs, restrict, i, new, fuel, d) ==
    IF restrict[i] \in SeqToSet(d.r.s)
    THEN ratify_inverted(S, kwargs, restrict, i, new, fuel,
                         eval_function(S, d.c, restrict[i], kwargs, fuel))
    ELSE ratify(S, Warn(d.c, "ParameterInconsistentWarning"),
                kwargs, restrict, i + 1, new, fuel)

\* "ratify these changes": invert the invertible functions among restrict
ratify(S, K, kwargs, restrict, i, new, fuel) ==
    IF i > Len(restrict) THEN Res(Dict(new), K)
    ELSE IF ~(restrict[i] \in DOMAIN S.parameters /\ S.parameters[restrict[i]].t = "fn")
    THEN ratify(S, K, kwargs, restrict, i + 1, new, fuel)
    ELSE ratify_function(S, kwargs, restrict, i, new, fuel,
                         get_pam_deps(S, K, restrict[i]))

RECURSIVE process_override(_, _, _, _, _)
\* kwargs.update(new) and the recursive call on the names of new
process_override_new(S, kwargs, fuel, rt) ==
    IF IsErr(rt.r) THEN rt
    ELSE IF DOMAIN rt.r.d = {} THEN Res(Dict(kwargs), rt.c)
    ELSE process_override(S, rt.c, Update(kwargs, rt.r.d), Keys(S.order, rt.r.d), fuel - 1)

\* the ratification of the evaluated overrides ev
process_override_evaluated(S, restrict, fuel, ev) ==
    IF IsErr(ev.r) THEN ev
    ELSE process_override_new(S, ev.r.d, fuel,
                              ratify(S, ev.c, ev.r.d, restrict, 1, EmptyDict, fuel))

\* the evaluation of the overrides in the order po
process_override_ordered(S, K, kwargs, restrict, fuel, po) ==
    IF IsErr(po) THEN Res(po, K)
    ELSE process_override_evaluated(S, restrict, fuel,
                                    evaluate_overrides(S, K, kwargs, po.s, 1, fuel))

\* Parameters.__process_override; the result is the kwargs dict as the call
\* leaves it
process_override(S, K, kwargs, restrict, fuel) ==
    IF DOMAIN kwargs = {} \/ Len(restrict) = 0 THEN Res(Dict(kwargs), K)
    ELSE IF fuel = 0 THEN Res(Err("RuntimeError"), K)
    ELSE IF \E i \in 1..Len(restrict) : restrict[i][1] = "_" THEN Res(Err("ValueError"), K)
    ELSE process_override_ordered(S, K, kwargs, restrict, fuel,
             pam_ordering(S.order, override_dependencies(kwargs, restrict), << >>))

(***************************************************************************)
(* Retrieval                                                               *)
(***************************************************************************)
RECURSIVE check_sups(_, _, _, _, _)
\* after self.__get_param(pam, kwargs) for the bounded superior sups[j]
check_sups_next(S, sups, j, kwargs, g) ==
    IF IsErr(g.r) THEN g
    ELSE check_sups(S, g.c, sups, j + 1, kwargs)

\* a bounded superior: evaluate it if all its dependencies are known
check_sups_bounded(S, sups, j, kwargs, keys) ==
    IF \A key \in SeqToSet(keys.r.s) : key \in DOMAIN kwargs \/ key \in DOMAIN S.parameters
    THEN check_sups_next(S, sups, j, kwargs,
                         get_param(S, keys.c, sups[j], kwargs, S.default_scaled,
                                   RecursionLimit))
    ELSE check_sups(S, Warn(keys.c, "ParameterBoundsUncheckedWarning"), sups, j + 1, kwargs)

\* the loop of Parameters.__forward_check_bounds over the superiors of one name
check_sups(S, K, sups, j, kwargs) ==
    IF j > Len(sups) THEN Res(None, K)
    ELSE IF sups[j] \notin DOMAIN S.parameters_bounds.d
    THEN check_sups(S, K, sups, j + 1, kwargs)
    ELSE check_sups_bounded(S, sups, j, kwargs, get_pam_deps(S, K, sups[j]))

RECURSIVE forward_check_bounds(_, _, _, _, _)
\* after the superiors of args[i] have been checked
forward_check_bounds_next(S, args, i, kwargs, c) ==
    IF IsErr(c.r) THEN c
    ELSE forward_check_bounds(S, c.c, args, i + 1, kwargs)

\* the superiors sups of args[i]
forward_check_bounds_sups(S, args, i, kwargs, sups) ==
    forward_check_bounds_next(S, args, i, kwargs,
                              check_sups(S, sups.c, sups.r.s, 1, kwargs))

\* Parameters.__forward_check_bounds
forward_check_bounds(S, K, args, i, kwargs) ==
    IF i > Len(args) THEN Res(None, K)
    ELSE forward_check_bounds_sups(S, args, i, kwargs, get_pam_sups(S, K, args[i]))

\* return result, unless the forward check raised
get_checked(value, f) == IF IsErr(f.r) THEN f ELSE Res(value, f.c)

\* Parameters.__get for one name, after self.__get_param
get_one(S, args, kwargs, result) ==
    IF IsErr(result.r) \/ S.parameters_bounds.none THEN result
    ELSE get_checked(result.r,
                     forward_check_bounds(S, result.c, args, 1,
                                          Put(kwargs, args[1], result.r)))

\* Parameters.__get for several names, after self.__get_params
get_several(S, args, kwargs, results) ==
    IF IsErr(results.r) \/ S.parameters_bounds.none THEN results
    ELSE get_checked(results.r,
                     forward_check_bounds(S, results.c, args, 1,
                                          Update(kwargs, results.r.d)))

\* Parameters.__get after self.__process_override(kwargs)
get_processed(S, args, ds, po) ==
    IF IsErr(po.r) THEN po
    ELSE IF Len(args) = 1
    THEN get_one(S, args, po.r.d,
                 get_param(S, po.c, args[1], po.r.d, ds, RecursionLimit))
    ELSE get_several(S, args, po.r.d,
                     get_params(S, po.c, args, 1, EmptyDict, po.r.d, ds, RecursionLimit))

\* Parameters.__get: one name gives a value, several give a dict
get(S, K, args, kwargs, ds) ==
    get_processed(S, args, ds,
                  process_override(S, K, kwargs, Keys(S.order, kwargs), RecursionLimit))

\* True and False as results
Bool(b) == [t |-> "bool", v |-> b]

\* Parameters.is_resolvable once self(*args, **params) has returned or raised
is_resolvable_of(g) == Res(Bool(~IsErr(g.r)), g.c)

\* Parameters.is_resolvable
is_resolvable(S, args, kwargs, ds) == is_resolvable_of(get(S, S, args, kwargs, ds))

\* what Parameters.__get computes from its names, before the forward check
get_value(S, args, ds, po) ==
    IF IsErr(po.r) THEN po
    ELSE IF Len(args) = 1
    THEN get_param(S, po.c, args[1], po.r.d, ds, RecursionLimit)
    ELSE get_params(S, po.c, args, 1, EmptyDict, po.r.d, ds, RecursionLimit)

\* the kwargs dict as Parameters.__get leaves it: processed by
\* __process_override, then kwargs[args[0]] = result under bounds for one
\* name, kwargs.update(results) for several
get_left(S, kwargs, args, po, value) ==
    IF IsErr(po.r) THEN kwargs
    ELSE IF IsErr(value.r) THEN po.r.d
    ELSE IF Len(args) = 1
    THEN IF S.parameters_bounds.none THEN po.r.d ELSE Put(po.r.d, args[1], value.r)
    ELSE Update(po.r.d, value.r.d)

\* self.__get(key) with the default dict G as kwargs: the outcome, and G as
\* the call leaves it
getitem_processed(S, G, args, po) ==
    [r |-> get_processed(S, args, S.default_scaled, po),
     kw |-> get_left(S, G, args, po, get_value(S, args, S.default_scaled, po))]

\* Parameters.__getitem__ for a string key: the key itself is passed as
\* args, so that __get sees its characters as the names asked for
getitem(P, G, key) ==
    getitem_processed(P, G, [i \in 1..Len(key) |-> <<key[i]>>],
                      process_override(P, P, G, Keys(P.order, G), RecursionLimit))

\* Parameters.__getattr__
getattr(P, name) ==
    IF Len(name) >= 2 /\ name[1] = "_" /\ name[2] = "_"
    THEN Res(Err("AttributeError"), P)
    ELSE get_param(P, P, name, EmptyDict, P.default_scaled, RecursionLimit)

(***************************************************************************)
(* Assignment.  These operators take the whole object P (store and         *)
(* caches) and return Res(outcome, P'), P' being the object as the call    *)
(* leaves it, also when it raises.                                         *)
(***************************************************************************)
Ok == [t |-> "ok"]

\* args = list(getargs(f)); if param in args: args.remove(param)
other_args(param, args) ==
    IF param \in SeqToSet(args)
    THEN SubSeq(args, 1, (CHOOSE i \in 1..Len(args) :
                              args[i] = param /\ \A j \in 1..(i - 1) : args[j] # param) - 1)
         \o SubSeq(args, (CHOOSE i \in 1..Len(args) :
                              args[i] = param /\ \A j \in 1..(i - 1) : args[j] # param) + 1,
                   Len(args))
    ELSE args

\* the ValueError conditions of Parameters.__check_function
bad_signature(param, f) ==
    \/ param \in SeqToSet(f.args) /\ f.args[Len(f.args)] # param
    \/ Under(param) \in SeqToSet(f.args) /\ f.args[Len(f.args)] # Under(param)
    \/ (param \in SeqToSet(f.args) \/ Under(param) \in SeqToSet(f.args)) /\ ~f.dflt
    \/ param \notin SeqToSet(f.args) /\ Under(param) \notin SeqToSet(f.args) /\ f.dflt

\* forbidden + [param]
forbid(forbidden, param) ==
    (IF forbidden.t = "list" THEN forbidden.s ELSE << >>) \o <<param>>

RECURSIVE check_function(_, _, _, _, _)
RECURSIVE check_function_args(_, _, _, _, _, _)

\* after the check of the function stored under args[i]
check_function_arg(P, f, args, i, forb, fuel, c) ==
    IF IsErr(c) THEN c
    ELSE check_function_args(P, f, args, i + 1, forb, fuel)

\* the loop of Parameters.__check_function over args
check_function_args(P, f, args, i, forb, fuel) ==
    IF i > Len(args) THEN Fn(f)
    ELSE IF args[i] \in DOMAIN P.parameters /\ P.parameters[args[i]].t = "fn"
    THEN check_function_arg(P, f, args, i, forb, fuel,
                            check_function(P, args[i], P.parameters[args[i]].f,
                                           List(forb), fuel - 1))
    ELSE check_function_args(P, f, args, i + 1, forb, fuel)

\* Parameters.__check_function passing on only the current name as forbidden
check_function_short(P, param, f, forbidden, fuel) ==
    IF fuel = 0 THEN Err("RuntimeError")
    ELSE IF bad_signature(param, f) THEN Err("ValueError")
    ELSE IF forbidden.t = "list"
            /\ \E a \in SeqToSet(forbidden.s) : a \in SeqToSet(other_args(param, f.args))
    THEN Err("ParameterRecursionError")
    ELSE check_function_args(P, f, other_args(param, f.args), 1, <<param>>, fuel)

\* Parameters.__check_function
check_function(P, param, f, forbidden, fuel) ==
    IF fuel = 0 THEN Err("RuntimeError")
    ELSE IF bad_signature(param, f) THEN Err("ValueError")
    ELSE IF forbidden.t = "list"
            /\ \E a \in SeqToSet(forbidden.s) : a \in SeqToSet(other_args(param, f.args))
    THEN Err("ParameterRecursionError")
    ELSE check_function_args(P, f, other_args(param, f.args), 1,
                             forbid(forbidden, param), fuel)

\* Parameters.__spec for one name
spec(P, arg, unit) == [P EXCEPT !.parameters_spec = Put(@, arg, unit)]

\* the characters of the classes [A-Za-z] and [0-9] that the model's names use
Letters == {"x", "y", "z"}
Digits == {"1"}

\* the part of a string that a pattern ending in $ has to cover: re.match lets
\* $ match before one trailing newline
re_body(param) ==
    IF Len(param) >= 2 /\ param[Len(param)] = "\n" THEN Front(param) ELSE param

\* re.match("^[<first>][_a-zA-Z0-9]*$", param)
re_match(first, param) ==
    /\ Len(param) >= 1
    /\ param[1] \in first
    /\ \A i \in 2..Len(re_body(param)) : param[i] \in Letters \cup Digits \cup {"_"}

\* every string is taken as valid
is_valid_param_any(param, allow_leading_underscore) ==
    Len(param) >= 1

\* Parameters.__is_valid_param
is_valid_param(param, allow_leading_underscore) ==
    re_match(IF allow_leading_underscore THEN Letters \cup {"_"} ELSE Letters, param)

\* self.__parameters[param] = self.__check_function(..); self.__spec({param: ''})
set_function(P1, param, c) ==
    IF IsErr(c) THEN Res(c, P1)
    ELSE Res(Ok, spec([P1 EXCEPT !.parameters = Put(@, param, c)], param, Dimless))

\* self.__parameters[param] = self.__get_quantity(..); self.__spec({param: units})
set_quantity(param, q) ==
    IF IsErr(q.r) THEN q
    ELSE Res(Ok, spec([q.c EXCEPT !.parameters = Put(@, param, q.r)], param, q.r.u))

\* the loop body of Parameters.__set once the caches of param are cleared
set_value(P1, param, val) ==
    IF val.t = "fn"
    THEN set_function(P1, param, check_function(P1, param, val.f, None, RecursionLimit))
    ELSE set_quantity(param, get_quantity(P1, P1, val, param, FALSE))

\* the body of the loop of Parameters.__set for one item
set_item(P, param, val) ==
    set_value([P EXCEPT !.cache_funcs = IF param \in DOMAIN @ THEN Put(@, param, None) ELSE @,
                        !.cache_scaled = IF param \in DOMAIN @ THEN Del(@, param) ELSE @],
              param, val)

RECURSIVE set_items(_, _, _, _)
\* after the item keys[i] has been set
set_items_next(kwargs, keys, i, r) ==
    IF IsErr(r.r) THEN r ELSE set_items(r.c, kwargs, keys, i + 1)

\* the loop of Parameters.__set
set_items(P, kwargs, keys, i) ==
    IF i > Len(keys) THEN Res(Ok, P)
    ELSE set_items_next(kwargs, keys, i, set_item(P, keys[i], kwargs[keys[i]]))

\* Parameters.__set
set(P, kwargs) ==
    IF \E k \in DOMAIN kwargs : ~is_valid_param(k, FALSE)
    THEN Res(Err("ParameterInvalidError"),
             [P EXCEPT !.cache_deps = EmptyDict, !.cache_sups = EmptyDict])
    ELSE set_items([P EXCEPT !.cache_deps = EmptyDict, !.cache_sups = EmptyDict],
                   kwargs, Keys(P.order, kwargs), 1)

RECURSIVE update_items(_, _, _, _)
\* after self.__set({param: kwargs[param]})
update_items_next(kwargs, keys, i, r) ==
    IF IsErr(r.r) THEN r ELSE update_items(r.c, kwargs, keys, i + 1)

\* every name is set, an invertible function included
update_item_overwriting(P, kwargs, keys, i, d) ==
    update_items_next(kwargs, keys, i, set(P, [k \in {keys[i]} |-> kwargs[keys[i]]]))

\* an invertible function stays; every other name is set
update_item(P, kwargs, keys, i, d) ==
    IF keys[i] \in DOMAIN P.parameters /\ P.parameters[keys[i]].t = "fn"
       /\ keys[i] \in SeqToSet(d.r.s)
    THEN update_items(d.c, kwargs, keys, i + 1)
    ELSE update_items_next(kwargs, keys, i,
                           set(P, [k \in {keys[i]} |-> kwargs[keys[i]]]))

\* the loop of Parameters.__update over the processed kwargs
update_items(P, kwargs, keys, i) ==
    IF i > Len(keys) THEN Res(Ok, P)
    ELSE update_item(P, kwargs, keys, i, get_pam_deps(P, P, keys[i]))

\* Parameters.__update after self.__process_override(kwargs)
update_processed(P, po) ==
    IF IsErr(po.r) THEN po
    ELSE update_items(po.c, po.r.d, Keys(P.order, po.r.d), 1)

\* Parameters.__update
update(P, kwargs) ==
    IF \E k \in DOMAIN kwargs : ~is_valid_param(k, TRUE)
    THEN Res(Err("ParameterInvalidError"), P)
    ELSE update_processed(P, process_override(P, P, kwargs, Keys(P.order, kwargs),
                                              RecursionLimit))

(***************************************************************************)
(* Configuration, bounds, scopes                                           *)
(***************************************************************************)
\* Parameters.scaling after the coercion of the new scale
scaling_store(scale) ==
    IF IsErr(scale.r) THEN scale
    ELSE IF UnitsDimensions(scale.r.u) = 1
    THEN Res(Ok, [scale.c EXCEPT !.scalings = Put(@, "length", scale.r)])
    ELSE Res(Err("ScalingUnitInvalidError"), scale.c)

\* self.__scaling_cache = {} of Parameters.scaling
scaling_clear(P) == [P EXCEPT !.scaling_cache = EmptyDict]

\* the coercion of the scale, on the object with the scaling cache cleared
scaling_cleared(P1, q) == scaling_store(get_quantity(P1, P1, q, NoParam, FALSE))

\* Parameters.scaling(length=q); no parameter of the model is called length,
\* so the coercion sees neither a declared unit nor a bound
scaling(P, q) == scaling_cleared(scaling_clear(P), q)

Bounds(param, units, bounds, error, clip, inclusive) ==
    [param |-> param, units |-> units, bounds |-> bounds,
     error |-> error, clip |-> clip, inclusive |-> inclusive]

\* Parameters.units(key): the declared unit, or None
units_of(P, key) ==
    IF key \in DOMAIN P.parameters_spec THEN P.parameters_spec[key] ELSE None

\* self.__parameters_bounds[key] = Bounds(key, self.units(key), [(lower, upper)], ..)
set_bounds_store(P, key, lower, error, clip, inclusive, upper) ==
    IF IsErr(upper.r) THEN upper
    ELSE Res(Ok, [upper.c EXCEPT !.parameters_bounds =
                     [none |-> FALSE,
                      d |-> Put(@.d, key,
                                Bounds(key, units_of(P, key), <<<<lower.r, upper.r>>>>,
                                       error, clip, inclusive))]])

\* Parameters.set_bounds after the coercion of the lower edge
set_bounds_upper(P, key, hi, error, clip, inclusive, lower) ==
    IF IsErr(lower.r) THEN lower
    ELSE set_bounds_store(P, key, lower, error, clip, inclusive,
                          get_quantity(P, lower.c, hi, key, FALSE))

\* Parameters.set_bounds for {key: (lo, hi)}
set_bounds(P, key, lo, hi, error, clip, inclusive) ==
    set_bounds_upper(P, key, hi, error, clip, inclusive,
                     get_quantity(P, P, lo, key, FALSE))

\* Parameters.__get_pam_united_name
get_pam_united_name(P, param) ==
    IF ~P.default_scaled THEN get_pam_name(param) ELSE Under(get_pam_name(param))

\* value * units.scale(target)
QuantityConvert_scaled(q, units, scale) ==
    IF IsErr(scale) THEN scale ELSE Qty(RMul(q.v, scale.v), units)

\* Quantity.__call__ without a conversion map
QuantityConvert(q, units) == QuantityConvert_scaled(q, units, UnitsScale(q.u, units))

\* self.__parameters[param] = self.__get(param)(units); self.__spec({param: units})
and_store(K, param, units, q) ==
    IF IsErr(q) THEN Res(q, K)
    ELSE Res(Ok, spec([K EXCEPT !.parameters = Put(@, get_pam_name(param), q)],
                      param, units))

\* Parameters.__and__ after the retrieval of the stored quantity
and_converted(param, units, g) ==
    IF IsErr(g.r) THEN g
    ELSE and_store(g.c, param, units, QuantityConvert(g.r, units))

\* Parameters.__and__ for {param: units}
and(P, param, units) ==
    IF param \in DOMAIN P.parameters /\ P.parameters[param].t = "qty"
    THEN and_converted(param, units,
                       get_param(P, P, get_pam_united_name(P, param), EmptyDict,
                                 P.default_scaled, RecursionLimit))
    ELSE Res(Ok, spec(P, param, units))

\* Parameters.cache(kwarg=cache_on)
cache(P, kwarg, cache_on) ==
    [P EXCEPT !.cache_funcs = IF kwarg \in DOMAIN @ /\ ~cache_on THEN Del(@, kwarg)
                              ELSE IF kwarg \notin DOMAIN @ /\ cache_on THEN Put(@, kwarg, None)
                              ELSE @]

\* Parameters.forget for one name (Parameters.__remove)
remove(P, param) ==
    [P EXCEPT !.parameters = IF param \in DOMAIN @ THEN Del(@, param) ELSE @,
              !.parameters_spec = IF param \in DOMAIN @ THEN Del(@, param) ELSE @]

\* copy.copy of a UnitDispenser: a new object whose attributes are those of
\* the original, the dict _units among them
copy_dispenser(units) ==
    [_units |-> units._units, _scalings |-> units._scalings,
     _contexts |-> units._contexts, _conversions |-> units._conversions,
     _convertable_units |-> units._convertable_units,
     _conversions_cache |-> units._conversions_cache,
     _context_current |-> units._context_current, _cache |-> units._cache,
     _dimensions |-> units._dimensions]

\* the dict that Parameters.__enter__ appends to the context stack
context(P) ==
    [parameters_spec |-> P.parameters_spec,
     parameters |-> P.parameters,
     parameters_bounds |-> P.parameters_bounds,
     scalings |-> P.scalings,
     units |-> copy_dispenser(P.units),
     units_custom |-> P.units_custom,
     default_scaled |-> P.default_scaled]

\* Unit(name, abbr=abbr, rel=rel, prefixable=False, dimensions=dimensions)
Unit(name, abbr, rel, dimensions) ==
    [t |-> "Unit", name |-> name, abbr |-> abbr, rel |-> rel, dimensions |-> dimensions]

\* UnitDispenser.get for a string
dispenser_get(H, D, unit) ==
    IF unit \in DOMAIN H[D._units] THEN H[D._units][unit] ELSE Err("UnitInvalidError")

\* the basis is set to the unit whatever its dimensions
dispenser_basis_any(dimensions, key, unit) ==
    Put(dimensions, key, unit)

\* UnitDispenser.basis(key=unit) for a Unit object, on the dict _dimensions
dispenser_basis(dimensions, key, unit) ==
    IF unit.dimensions = [d \in {key} |-> 1] THEN Put(dimensions, key, unit) ELSE dimensions

\* the loop of UnitDispenser.add over unit.dimensions for one dimension
dispenser_add_dimension(dimensions, dimension, unit) ==
    IF dimension \notin DOMAIN dimensions \/ dimensions[dimension] = None
    THEN IF unit.dimensions = [d \in {dimension} |-> 1]
         THEN dispenser_basis(dimensions, dimension, unit)
         ELSE Put(dimensions, dimension, None)
    ELSE dimensions

\* the loop of UnitDispenser.add over unit.dimensions; todo is the set of
\* dimensions still to visit
RECURSIVE dispenser_add_dimensions(_, _, _)
dispenser_add_dimensions(dimensions, todo, unit) ==
    IF todo = {} THEN dimensions
    ELSE dispenser_add_dimensions(
             dispenser_add_dimension(dimensions, CHOOSE d \in todo : TRUE, unit),
             todo \ {CHOOSE d \in todo : TRUE}, unit)

\* UnitDispenser.add for a unit without prefixes
dispenser_add(H, units, unit) ==
    [H EXCEPT ![units._units] = Put(Put(@, unit.name, unit), unit.abbr, unit),
              ![units._dimensions] = dispenser_add_dimensions(@, DOMAIN unit.dimensions, unit)]

\* the identifiers UnitDispenser.get finds in the dict _units of a dispenser
dispenser_units(H, units) == DOMAIN H[units._units]

\* Parameters.unit_add: self.__units_custom.append(unit)
unit_add(P, unit) == [P EXCEPT !.units_custom = Append(@, unit)]

\* Parameters.__exit__ that leaves the scalings as they are
exit_keeps_scalings(P, ctx) ==
    [P EXCEPT !.parameters_spec = ctx.parameters_spec,
              !.parameters = ctx.parameters,
              !.parameters_bounds = ctx.parameters_bounds,
              !.units = ctx.units,
              !.units_custom = ctx.units_custom,
              !.default_scaled = ctx.default_scaled,
              !.cache_deps = EmptyDict,
              !.cache_sups = EmptyDict,
              !.cache_scaled = EmptyDict,
              !.scaling_cache = EmptyDict]

\* Parameters.__exit__: restore the popped context and clear the caches
exit(P, ctx) ==
    [P EXCEPT !.parameters_spec = ctx.parameters_spec,
              !.parameters = ctx.parameters,
              !.parameters_bounds = ctx.parameters_bounds,
              !.scalings = ctx.scalings,
              !.units = ctx.units,
              !.units_custom = ctx.units_custom,
              !.default_scaled = ctx.default_scaled,
              !.cache_deps = EmptyDict,
              !.cache_sups = EmptyDict,
              !.cache_scaled = EmptyDict,
              !.scaling_cache = EmptyDict]

(***************************************************************************)
(* Units as dicts.  A Units object is a dict from the identifier of a Unit *)
(* of the catalog to its power, a Fraction; the dimensions of a Unit are a *)
(* dict from the name of a dimension to its order.                         *)
(***************************************************************************)
\* the Unit objects of the catalog that the model uses: metre, kilo-metre,
\* second and hertz
UnitCatalog ==
    [u \in {"m", "km", "s", "Hz"} |->
        [rel |-> IF u = "km" THEN R(1000) ELSE R(1),
         base_unit |-> IF u = "km" THEN "m" ELSE u,
         dimensions |-> IF u \in {"m", "km"} THEN [d \in {"length"} |-> 1]
                        ELSE [d \in {"time"} |-> IF u = "s" THEN 1 ELSE -1]]]

\* d.get(k, 0) for a dict of Fractions
GetR(d, k) == IF k \in DOMAIN d THEN d[k] ELSE R(0)

\* power * order for one Unit of a Units dict and one dimension
dimension_term(us, u, key) ==
    IF key \in DOMAIN UnitCatalog[u].dimensions
    THEN RMul(us[u], R(UnitCatalog[u].dimensions[key]))
    ELSE R(0)

RECURSIVE dimension_sum(_, _, _)
\* dimensions[key] after the loop of Units.dimensions over the Units in todo
dimension_sum(us, key, todo) ==
    IF todo = {} THEN R(0)
    ELSE RAdd(dimension_term(us, CHOOSE u \in todo : TRUE, key),
              dimension_sum(us, key, todo \ {CHOOSE u \in todo : TRUE}))

\* the dimensions that the unit objects of a Units dict name
dimension_keys(us) == UNION {DOMAIN UnitCatalog[u].dimensions : u \in DOMAIN us}

\* the summed exponents of every dimension named, those that are 0 included
units_dimensions_all(us) ==
    [key \in dimension_keys(us) |-> dimension_sum(us, key, DOMAIN us)]

\* Units.dimensions: the summed exponents, those that are 0 deleted
units_dimensions(us) ==
    [key \in {k \in dimension_keys(us) : dimension_sum(us, k, DOMAIN us) # R(0)}
        |-> dimension_sum(us, key, DOMAIN us)]

\* Units.__mul_units: the powers of additive are added to those of target and
\* an entry that becomes 0 is deleted
mul_units(target, additive) ==
    [u \in ((DOMAIN target) \ (DOMAIN additive))
            \cup {v \in DOMAIN additive : RAdd(GetR(target, v), additive[v]) # R(0)}
        |-> IF u \in DOMAIN additive THEN RAdd(GetR(target, u), additive[u])
            ELSE target[u]]

\* Units.__mul__ of two Units
units_mul(a, b) == mul_units(a, b)

\* Units.__pow__: every power is multiplied by other
units_pow(a, other) == [u \in DOMAIN a |-> RMul(a[u], other)]

\* Units.rel: the product of unit.rel ** power, for whole powers
RECURSIVE units_rel_of(_, _)
units_rel_of(us, todo) ==
    IF todo = {} THEN R(1)
    ELSE RMul(RPow(UnitCatalog[CHOOSE u \in todo : TRUE].rel, us[CHOOSE u \in todo : TRUE][1]),
              units_rel_of(us, todo \ {CHOOSE u \in todo : TRUE}))

units_rel(us) == units_rel_of(us, DOMAIN us)

\* the context argument of scale when none is given, and the key of the
\* scalings that belong to no context
False == "False"
Global == "None"

RECURSIVE scalings_scan(_, _, _, _)
\* the loop of UnitDispenser.scale over the scalings of one context: the first
\* scaling between the two dimension vectors, inverted if it is registered
\* the other way round
scalings_scan(scalings, i, dim_from, dim_to) ==
    IF i > Len(scalings) THEN None
    ELSE IF dim_from = scalings[i][1] /\ dim_to = scalings[i][2] THEN Num(scalings[i][3])
    ELSE IF dim_from = scalings[i][2] /\ dim_to = scalings[i][1]
    THEN Num(RDiv(R(1), scalings[i][3]))
    ELSE scalings_scan(scalings, i + 1, dim_from, dim_to)

\* the scalings of the context alone: what the loop gave, else ValueError
dispenser_scale_local(S, cx, dim_from, dim_to, found) ==
    IF found # None THEN found ELSE Err("ValueError")

\* the end of UnitDispenser.scale: what the loop over the context gave, else
\* self.scale(dim_from, dim_to, context=None), else ValueError
dispenser_scale_found(S, cx, dim_from, dim_to, found) ==
    IF found # None THEN found
    ELSE IF cx # Global /\ Global \in DOMAIN S
            /\ scalings_scan(S[Global], 1, dim_from, dim_to) # None
    THEN scalings_scan(S[Global], 1, dim_from, dim_to)
    ELSE Err("ValueError")

\* UnitDispenser.scale for a context that is a name or None
dispenser_scale_in(S, cx, dim_from, dim_to) ==
    dispenser_scale_found(S, cx, dim_from, dim_to,
                          IF cx \in DOMAIN S
                          THEN scalings_scan(S[cx], 1, dim_from, dim_to) ELSE None)

\* UnitDispenser.scale
dispenser_scale(S, current, dim_from, dim_to, cx) ==
    dispenser_scale_in(S, IF cx = False
                          THEN IF current # False THEN current ELSE Global
                          ELSE cx,
                       dim_from, dim_to)

\* Units.scale after the cache of self missed: the cache of self starts anew
\* and holds the result only if no scaling was applied
units_scale_computed(a, other, dims, dims_other, scale) ==
    IF IsErr(scale)
    THEN IF dims # dims_other
         THEN [r |-> Err("UnitConversionError"), cache |-> EmptyDict]
         ELSE [r |-> Num(RDiv(units_rel(a), units_rel(other))),
               cache |-> Put(EmptyDict, other, RDiv(units_rel(a), units_rel(other)))]
    ELSE [r |-> Num(RMul(RDiv(units_rel(a), units_rel(other)), scale.v)), cache |-> EmptyDict]

\* Units.scale of the Units object a whose scale cache is cached
units_scale(S, current, cached, a, other, cx) ==
    IF other \in DOMAIN cached THEN [r |-> Num(cached[other]), cache |-> cached]
    ELSE units_scale_computed(a, other, units_dimensions(a), units_dimensions(other),
                              dispenser_scale(S, current, units_dimensions(a),
                                              units_dimensions(other), cx))

\* if context not in self._contexts: self._contexts[context] = {}
add_context(contexts, cx) ==
    IF cx \in DOMAIN contexts THEN contexts ELSE Put(contexts, cx, EmptyDict)

\* UnitDispenser.add_scaling
add_scaling(S, dim_from, dim_to, factor, cx) ==
    Put(S, cx, Append(IF cx \in DOMAIN S THEN S[cx] ELSE << >>,
                           <<dim_from, dim_to, factor>>))

(***************************************************************************)
(* Quantity objects with their absolute flag.  The operand of an operator  *)
(* of Quantity is a Quantity, a (value, units) pair or a bare number.      *)
(***************************************************************************)
\* Quantity(value, units, absolute)
Quantity(value, us, absolute) ==
    [t |-> "quantity", value |-> value, units |-> us, absolute |-> absolute]

\* the tuple (value, units)
Pair(value, us) == [t |-> "pair", value |-> value, units |-> us]

\* the coercion at the head of Quantity.__add__ and __sub__: self._new(*other)
\* for a pair and self._new(other, None) for a number
quantity_other(other) ==
    IF other.t = "pair" THEN Quantity(other.value, other.units, FALSE)
    ELSE IF other.t = "num" THEN Quantity(other.v, EmptyDict, FALSE)
    ELSE other

\* the flag of a sum: self.absolute and not other.absolute or not
\* self.absolute and other.absolute
quantity_add_abs(self, other) ==
    (self.absolute /\ ~other.absolute) \/ (~self.absolute /\ other.absolute)

\* the two return statements of Quantity.__add__ (sign = 1) and __sub__
\* (sign = -1) once the scale between the units is known
quantity_add_scaled(self, other, sign, reverse, scale) ==
    IF IsErr(scale) THEN scale
    ELSE IF reverse
    THEN Quantity(RAdd(RMul(R(sign), RMul(scale.v, self.value)), other.value),
                  other.units, quantity_add_abs(self, other))
    ELSE Quantity(RAdd(self.value, RMul(R(sign), RMul(scale.v, other.value))),
                  self.units, quantity_add_abs(self, other))

\* Quantity.__add__ / __sub__ on a coerced operand; S and current are the
\* scalings and the context of the dispenser
quantity_add_coerced(S, current, self, other, sign, reverse) ==
    quantity_add_scaled(self, other, sign, reverse,
        IF reverse THEN units_scale(S, current, EmptyDict, self.units, other.units, False).r
        ELSE units_scale(S, current, EmptyDict, other.units, self.units, False).r)

\* Quantity.__add__(other, reverse) and Quantity.__sub__(other, reverse)
quantity_add(S, current, self, other, sign, reverse) ==
    IF other.t = "num" /\ other.v = R(0) THEN Quantity(self.value, self.units, FALSE)
    ELSE quantity_add_coerced(S, current, self, quantity_other(other), sign, reverse)

(***************************************************************************)
(* Conversion maps.  H is the heap of the dicts of the dispenser D; C maps *)
(* a Units object to its scale cache.  A mapping is a number or a function *)
(* of the value and of further arguments that the context has to provide.  *)
(***************************************************************************)
\* a mapping that is a function: its argument names and what it computes
Lambda(names, body) == [t |-> "lambda", names |-> names, body |-> body]

\* f(*args) for the functions the model registers
lambda_value(f, v) ==
    IF f.body = "square" THEN Num(RMul(v, v))
    ELSE IF f.body = "offset" THEN Num(RAdd(v, R(1)))
    ELSE Num(RMul(R(2), v))

\* UnitDispenser.__eval_context_function with one positional argument: an
\* argument name beyond it is looked up in the parameters of the context
\* (those of the current context are a copy of them)
eval_context_function(contexts, f, cx, v) ==
    IF f.t # "lambda" THEN f
    ELSE IF \E i \in 2..Len(f.names) :
                ~(cx \in DOMAIN contexts /\ f.names[i] \in DOMAIN contexts[cx])
    THEN Err("ValueError")
    ELSE lambda_value(f, v)

\* UnitDispenser.add_conversion_map
add_conversion_map(H, D, unit_from, unit_to, mapping, absolute, cx) ==
    [H EXCEPT ![D._contexts] = add_context(@, cx),
              ![D._conversions] =
                  Put(@, cx, Append(IF cx \in DOMAIN @ THEN @[cx] ELSE << >>,
                                    <<unit_from, unit_to, mapping, absolute>>)),
              ![D._convertable_units] = @ \cup {unit_from}]

\* sorted(map(m, units.keys())) with m = lambda u: u.base_unit.name, as the
\* number of keys with each base unit
base_names(us) ==
    [b \in {UnitCatalog[u].base_unit : u \in DOMAIN us} |->
        Cardinality({u \in DOMAIN us : UnitCatalog[u].base_unit = b})]

\* a.scale(b) on the Units object a, with the scale cache of a kept in C
scale_kept(C, a, s) == [r |-> s.r, cache |-> Put(C, a, s.cache)]

scale_in(S, current, C, a, b, cx) ==
    scale_kept(C, a, units_scale(S, current, IF a \in DOMAIN C THEN C[a] ELSE EmptyDict,
                                 a, b, cx))

\* the function c that conversion_map returns
Conversion(mapping, cx, pre_scaling, post_scaling) ==
    [t |-> "conversion", mapping |-> mapping, context |-> cx,
     pre_scaling |-> pre_scaling, post_scaling |-> post_scaling]

\* c(v): self.__eval_context_function(conversion[2], context,
\* args=[pre_scaling*v]) / post_scaling
conversion_divided(mapped, post_scaling) ==
    IF IsErr(mapped) THEN mapped ELSE Num(RDiv(mapped.v, post_scaling))

conversion_value(contexts, c, v) ==
    conversion_divided(eval_context_function(contexts, c.mapping, c.context,
                                             RMul(c.pre_scaling, v)),
                       c.post_scaling)

\* the loop of conversion_map over the conversions of the context from the
\* i-th on: the first one with the absolute flag asked for whose units have
\* the base units of unit_from and unit_to and scale to them
RECURSIVE conversion_loop(_, _, _, _, _, _, _, _, _)
RECURSIVE conversion_pre(_, _, _, _, _, _, _, _, _)
RECURSIVE conversion_post(_, _, _, _, _, _, _, _, _, _)
conversion_loop(S, current, C, conversions, i, unit_from, unit_to, absolute, cx) ==
    IF i > Len(conversions) THEN [c |-> None, cache |-> C]
    ELSE IF conversions[i][4] # absolute
            \/ base_names(conversions[i][1]) # base_names(unit_from)
            \/ base_names(conversions[i][2]) # base_names(unit_to)
    THEN conversion_loop(S, current, C, conversions, i + 1, unit_from, unit_to, absolute, cx)
    ELSE conversion_pre(S, current, conversions, i, unit_from, unit_to, absolute, cx,
                        scale_in(S, current, C, unit_from, conversions[i][1], False))

\* after pre_scaling = unit_from.scale(conversion[0])
conversion_pre(S, current, conversions, i, unit_from, unit_to, absolute, cx, pre) ==
    IF IsErr(pre.r)
    THEN conversion_loop(S, current, pre.cache, conversions, i + 1, unit_from, unit_to,
                         absolute, cx)
    ELSE conversion_post(S, current, conversions, i, unit_from, unit_to, absolute, cx, pre.r.v,
                         scale_in(S, current, pre.cache, unit_to, conversions[i][2], False))

\* after post_scaling = unit_to.scale(conversion[1])
conversion_post(S, current, conversions, i, unit_from, unit_to, absolute, cx, pre_scaling, post) ==
    IF IsErr(post.r)
    THEN conversion_loop(S, current, post.cache, conversions, i + 1, unit_from, unit_to,
                         absolute, cx)
    ELSE [c |-> Conversion(conversions[i][3], cx, pre_scaling, post.r.v), cache |-> post.cache]

\* UnitDispenser.conversion_map: the result r, the heap and the scale caches
RECURSIVE conversion_map(_, _, _, _, _, _, _)

\* the end of conversion_map: self.conversion_map(unit_from, unit_to,
\* context=None) from a context with a name, else ValueError
conversion_map_rest(H, D, C, unit_from, unit_to, cx) ==
    IF cx # Global THEN conversion_map(H, D, C, unit_from, unit_to, FALSE, Global)
    ELSE [r |-> Err("ValueError"), H |-> H, cache |-> C]

\* conversion_map after its loop: the cache of conversions takes c
conversion_map_looked(H, D, unit_from, unit_to, absolute, cx, found) ==
    IF found.c # None
    THEN [r |-> found.c,
          H |-> [H EXCEPT ![D._conversions_cache] =
                              Put(@, <<cx, unit_from, unit_to, absolute>>, found.c)],
          cache |-> found.cache]
    ELSE conversion_map_rest([H EXCEPT ![D._conversions_cache] =
                                           Put(@, <<cx, unit_from, unit_to, absolute>>, None)],
                             D, found.cache, unit_from, unit_to, cx)

\* conversion_map in the context cx, a name or None
conversion_map_in(H, D, C, unit_from, unit_to, absolute, cx) ==
    IF <<cx, unit_from, unit_to, absolute>> \in DOMAIN H[D._conversions_cache]
    THEN IF H[D._conversions_cache][<<cx, unit_from, unit_to, absolute>>] # None
         THEN [r |-> H[D._conversions_cache][<<cx, unit_from, unit_to, absolute>>],
               H |-> H, cache |-> C]
         ELSE conversion_map_rest(H, D, C, unit_from, unit_to, cx)
    ELSE IF cx \in DOMAIN H[D._conversions]
    THEN conversion_map_looked(H, D, unit_from, unit_to, absolute, cx,
             conversion_loop(H[D._scalings], D._context_current, C, H[D._conversions][cx], 1,
                             unit_from, unit_to, absolute, cx))
    ELSE conversion_map_rest(H, D, C, unit_from, unit_to, cx)

conversion_map(H, D, C, unit_from, unit_to, absolute, cx) ==
    IF unit_from \notin H[D._convertable_units]
    THEN [r |-> Err("ValueError"), H |-> H, cache |-> C]
    ELSE conversion_map_in(H, D, C, unit_from, unit_to, absolute,
                           IF cx = False
                           THEN IF D._context_current # False THEN D._context_current
                                ELSE Global
                           ELSE cx)

\* the except branch of Quantity.__call__: self.value * self.units.scale(units,
\* context=context)
quantity_call_scaled(H, self, us, scale, raised, c) ==
    [r |-> IF IsErr(scale.r) THEN scale.r
           ELSE Quantity(RMul(self.value, scale.r.v), us, self.absolute),
     H |-> H, cache |-> scale.cache, raised |-> raised, map |-> c]

\* raised is the error caught and c the map that conversion_map returned,
\* None if it raised
quantity_call_except(H, D, C, self, us, cx, raised, c) ==
    quantity_call_scaled(H, self, us, scale_in(H[D._scalings], D._context_current, C,
                                               self.units, us, cx), raised, c)

\* the try branch of Quantity.__call__ once the map is applied to self.value
quantity_call_mapped(H, D, C, self, us, cx, c, value) ==
    IF IsErr(value) THEN quantity_call_except(H, D, C, self, us, cx, value, c)
    ELSE [r |-> Quantity(value.v, us, self.absolute), H |-> H, cache |-> C, raised |-> None,
          map |-> c]

\* Quantity.__call__ once conversion_map has returned or raised
quantity_call_looked(D, self, us, cx, looked) ==
    IF IsErr(looked.r)
    THEN quantity_call_except(looked.H, D, looked.cache, self, us, cx, looked.r, None)
    ELSE quantity_call_mapped(looked.H, D, looked.cache, self, us, cx, looked.r,
                              conversion_value(looked.H[D._contexts], looked.r, self.value))

\* Quantity.__call__(units, context): the Quantity r, the heap, the scale
\* caches and the error that the try branch raised, if any
quantity_call(H, D, C, self, us, cx) ==
    quantity_call_looked(D, self, us, cx,
                         conversion_map(H, D, C, self.units, us, self.absolute, cx))

(***************************************************************************)
(* Units objects with their hash.  The dict of a Units object is kept as   *)
(* the sequence of its items <<unit, power, frac>> in the order of         *)
(* insertion, frac telling a Fraction from an int; a string is kept as the *)
(* sequence of its terms <<separator, abbreviation, power>>, the power     *)
(* being << >> where the term has no ^power.                               *)
(***************************************************************************)
Term(sep, abbr, power) == <<sep, abbr, power>>

\* the arguments of Units(): a string, a dict of Unit objects
StrArg(terms) == [t |-> "str", terms |-> terms, items |-> << >>]
DictArg(items) == [t |-> "dict", terms |-> << >>, items |-> items]

\* the place of a unit among the items of a dict, 0 if it has none
item_index(items, unit) ==
    IF \E i \in 1..Len(items) : items[i][1] = unit
    THEN CHOOSE i \in 1..Len(items) : items[i][1] = unit
    ELSE 0

\* d[unit] = d.get(unit, 0) + power
item_add(items, unit, power, frac) ==
    IF item_index(items, unit) = 0 THEN Append(items, <<unit, power, frac>>)
    ELSE [items EXCEPT ![item_index(items, unit)] = <<unit, @[2] + power, @[3] \/ frac>>]

\* if d.get(unit, 0) == 0: del d[unit]
item_del_zero(items, unit) ==
    SelectSeq(items, LAMBDA it : ~(it[1] = unit /\ it[2] = 0))

\* Units.__process_units for a string: the loop over the matches of the
\* regular expression
RECURSIVE Units_process_string(_, _, _)
Units_process_string(terms, i, d) ==
    IF i > Len(terms) THEN d
    ELSE Units_process_string(terms, i + 1,
             item_add(d, terms[i][2],
                      (IF terms[i][1] = "/" THEN -1 ELSE 1)
                          * (IF terms[i][3] = << >> THEN 1 ELSE terms[i][3][1]),
                      terms[i][3] # << >>))

\* Units.__process_units
Units_process_units(arg) ==
    IF arg.t = "none" THEN << >>
    ELSE IF arg.t = "Units" THEN arg.units
    ELSE IF arg.t = "dict" THEN arg.items
    ELSE Units_process_string(arg.terms, 1, << >>)

\* the abbreviations of the units in the order of sorted(items, key=str),
\* which is that of the names hertz, kilometre, metre, second
UnitOrder == <<"Hz", "km", "m", "s">>

\* Units.__unicode__: the terms with a positive power joined by "*"
RECURSIVE Units_unicode_positive(_, _, _)
Units_unicode_positive(items, k, output) ==
    IF k > Len(UnitOrder) THEN output
    ELSE IF item_index(items, UnitOrder[k]) # 0
            /\ items[item_index(items, UnitOrder[k])][2] > 0
    THEN Units_unicode_positive(items, k + 1,
             Append(output,
                    Term(IF output = << >> THEN "" ELSE "*", UnitOrder[k],
                         IF items[item_index(items, UnitOrder[k])][2] # 1
                         THEN <<items[item_index(items, UnitOrder[k])][2]>> ELSE << >>)))
    ELSE Units_unicode_positive(items, k + 1, output)

\* Units.__unicode__: then the terms with a negative power, each after "/"
RECURSIVE Units_unicode_negative(_, _, _)
Units_unicode_negative(items, k, output) ==
    IF k > Len(UnitOrder) THEN output
    ELSE IF item_index(items, UnitOrder[k]) # 0
            /\ items[item_index(items, UnitOrder[k])][2] < 0
    THEN Units_unicode_negative(items, k + 1,
             Append(output,
                    Term("/", UnitOrder[k],
                         IF items[item_index(items, UnitOrder[k])][2] # -1
                         THEN <<-items[item_index(items, UnitOrder[k])][2]>> ELSE << >>)))
    ELSE Units_unicode_negative(items, k + 1, output)

\* Units.__unicode__ and str(units)
Units_unicode(items) ==
    Units_unicode_negative(items, 1, Units_unicode_positive(items, 1, << >>))

\* str(arg) for the argument of Units(): the string itself, the rendering
\* of a Units object, the text of a dict, 'None'
str_of(arg) ==
    IF arg.t = "str" THEN [kind |-> "str", terms |-> arg.terms, items |-> << >>]
    ELSE IF arg.t = "Units"
    THEN [kind |-> "str", terms |-> Units_unicode(arg.units), items |-> << >>]
    ELSE IF arg.t = "dict" THEN [kind |-> "dict", terms |-> << >>, items |-> arg.items]
    ELSE [kind |-> "str", terms |-> <<Term("", "None", << >>)>>, items |-> << >>]

\* hash(s) of a string s: equal for equal strings, and taken to differ for
\* different ones
hash(s) == s

\* Units.__init__
Units(arg) == [t |-> "Units", hash |-> hash(str_of(arg)), units |-> Units_process_units(arg)]

\* Units.__hash__
Units_hash(a) == a.hash

\* Units.__eq__
Units_eq(a, b) == Units_unicode(a.units) = Units_unicode(b.units)

\* Units.__mul_units (sign = 1) and Units.__div_units (sign = -1)
RECURSIVE Units_mul_units(_, _, _, _)
Units_mul_units(target, additive, i, sign) ==
    IF i > Len(additive) THEN target
    ELSE Units_mul_units(item_del_zero(item_add(target, additive[i][1], sign * additive[i][2],
                                                additive[i][3]),
                                       additive[i][1]),
                         additive, i + 1, sign)

\* Units.__mul__ and Units.__div__ of two Units objects
Units_mul(a, b) == Units(DictArg(Units_mul_units(a.units, b.units, 1, 1)))
Units_div(a, b) == Units(DictArg(Units_mul_units(a.units, b.units, 1, -1)))

\* Units.__pow__ with an int
Units_pow(a, k) == Units(DictArg([i \in 1..Len(a.units) |->
                                    <<a.units[i][1], a.units[i][2] * k, a.units[i][3]>>]))

\* the Unit objects that Units.__process_units gets from the dispenser for
\* the abbreviations of a string; a Units argument brings its own
Units_found(H, D, arg) ==
    IF arg.t = "str"
    THEN [a \in {arg.terms[i][2] : i \in 1..Len(arg.terms)} |-> dispenser_get(H, D, a)]
    ELSE EmptyDict

\* a Units object as an instance: id tells one instance from another, found
\* holds the Unit objects that are the keys of its dict
Instance(id, arg, found) ==
    [t |-> "instance", id |-> id, units |-> Units(arg), found |-> found]

\* Units(arg, dispenser=self): an unknown abbreviation raises
Units_of(H, D, arg, id) ==
    IF \E a \in DOMAIN Units_found(H, D, arg) : IsErr(Units_found(H, D, arg)[a])
    THEN Err("UnitInvalidError")
    ELSE Instance(id, arg, Units_found(H, D, arg))

\* UnitDispenser.__call__ storing the new instance r for a string
dispenser_call_new(H, D, arg, r) ==
    IF IsErr(r) THEN [r |-> r, H |-> H]
    ELSE [r |-> r, H |-> [H EXCEPT ![D._cache] = Put(@, arg.terms, r)]]

\* UnitDispenser.__call__; id is the identity that a new instance gets
dispenser_call(H, D, arg, id) ==
    IF arg.t = "str"
    THEN IF arg.terms \in DOMAIN H[D._cache]
         THEN [r |-> H[D._cache][arg.terms], H |-> H]
         ELSE dispenser_call_new(H, D, arg, Units_of(H, D, arg, id))
    ELSE [r |-> Units_of(H, D, arg, id), H |-> H]

\* the context is taken and the cache stays as it is
set_context_keeping(H, D, name, fresh) ==
    IF name \notin DOMAIN H[D._contexts] THEN [r |-> Err("ValueError"), H |-> H, D |-> D]
    ELSE [r |-> Ok, H |-> H, D |-> [D EXCEPT !._context_current = name]]

\* UnitDispenser.set_context with the defaults of the context's parameters;
\* fresh is the new dict that self.__cache becomes
set_context(H, D, name, fresh) ==
    IF name \notin DOMAIN H[D._contexts] THEN [r |-> Err("ValueError"), H |-> H, D |-> D]
    ELSE [r |-> Ok, H |-> Put(H, fresh, EmptyDict),
          D |-> [D EXCEPT !._context_current = name, !._cache = fresh]]

(***************************************************************************)
(* State                                                                   *)
(***************************************************************************)
VARIABLES
    parameters,         \* name -> Quantity or function
    parameters_spec,    \* name -> declared Units
    parameters_bounds,  \* None, or name -> Bounds
    scalings,           \* dimension -> Quantity
    units,              \* the UnitDispenser of the store: its _units attribute names a dict
    units_custom,       \* the units added with unit_add
    unit_dicts,         \* the dicts that dispensers refer to: unit identifiers, scalings
    scale_cache,        \* the scale cache of each Units object that has one
    default_scaled,     \* the constructor's flag
    cache_deps, cache_sups, cache_scaled, cache_funcs, scaling_cache,
    context_save,       \* the stack of saved contexts
    order,              \* iteration order of the dicts of this process
    entered,            \* history: the store as it was at each open __enter__
    entered_units,      \* history: the identifiers recognised at each open __enter__
    get_kwargs,         \* the default kwargs dict of __get, shared by the calls that pass none
    last,               \* the last call and its outcome
    nops                \* number of calls made

vars == <<parameters, parameters_spec, parameters_bounds, scalings, default_scaled,
          units, units_custom, unit_dicts, scale_cache, entered_units,
          cache_deps, cache_sups, cache_scaled, cache_funcs, scaling_cache,
          context_save, order, entered, get_kwargs, last, nops>>

\* the Parameters object
Obj ==
    [parameters |-> parameters, parameters_spec |-> parameters_spec,
     parameters_bounds |-> parameters_bounds, scalings |-> scalings,
     units |-> units, units_custom |-> units_custom,
     default_scaled |-> default_scaled, order |-> order,
     cache_deps |-> cache_deps, cache_sups |-> cache_sups,
     cache_scaled |-> cache_scaled, cache_funcs |-> cache_funcs,
     scaling_cache |-> scaling_cache, warn |-> {}]

Commit(P) ==
    /\ parameters' = P.parameters
    /\ parameters_spec' = P.parameters_spec
    /\ parameters_bounds' = P.parameters_bounds
    /\ scalings' = P.scalings
    /\ units' = P.units
    /\ units_custom' = P.units_custom
    /\ default_scaled' = P.default_scaled
    /\ cache_deps' = P.cache_deps
    /\ cache_sups' = P.cache_sups
    /\ cache_scaled' = P.cache_scaled
    /\ cache_funcs' = P.cache_funcs
    /\ scaling_cache' = P.scaling_cache

\* what a caller can observe of the store
Store(P) == context(P)

(***************************************************************************)
(* Operations.  nops counts the calls that change the store or its caches; *)
(* entering and leaving a scope is bounded by MaxScopes instead.           *)
(***************************************************************************)
More == nops < MaxOps
Frame == /\ UNCHANGED <<context_save, order, entered, get_kwargs, unit_dicts, scale_cache,
                       entered_units>>
         /\ nops' = nops + 1

\* the end of a call recorded as l with the outcome r: the object is as the
\* call leaves it
Done(l, r) ==
    /\ Commit(r.c)
    /\ last' = [l EXCEPT !.res = r.r, !.warn = r.c.warn]
    /\ Frame

\* p << {param: val}
SetRaw(param, val) ==
    /\ More
    /\ Done([op |-> "set_raw", param |-> param, val |-> val, res |-> Ok, warn |-> {}],
            set(Obj, [k \in {param} |-> val]))

\* p << kwargs
SetRawDict(kwargs) ==
    /\ More
    /\ Done([op |-> "set_raw_dict", kwargs |-> kwargs, res |-> Ok, warn |-> {}],
            set(Obj, kwargs))

\* p(**kwargs)
Set(kwargs) ==
    /\ More
    /\ Done([op |-> "set", kwargs |-> kwargs, res |-> Ok, warn |-> {}],
            update(Obj, kwargs))

\* p(*args, **kwargs)
Get(args, kwargs) ==
    /\ More
    /\ Done([op |-> "get", args |-> args, kwargs |-> kwargs, res |-> Ok, warn |-> {}],
            get(Obj, Obj, args, kwargs, default_scaled))

\* p.is_resolvable(*args, **kwargs)
IsResolvable(args, kwargs) ==
    /\ More
    /\ Done([op |-> "is_resolvable", args |-> args, kwargs |-> kwargs, res |-> Ok, warn |-> {}],
            is_resolvable(Obj, args, kwargs, default_scaled))

\* p._(*args, **kwargs) with names to retrieve
GetInverted(args, kwargs) ==
    /\ More
    /\ Done([op |-> "get_", args |-> args, kwargs |-> kwargs, res |-> Ok, warn |-> {}],
            get(Obj, Obj, args, kwargs, ~default_scaled))

\* the end of p[key], recorded as l with the outcome g of getitem
DoneItem(l, g) ==
    /\ Commit(g.r.c)
    /\ last' = [l EXCEPT !.res = g.r.r, !.warn = g.r.c.warn]
    /\ get_kwargs' = g.kw
    /\ UNCHANGED <<context_save, order, entered, unit_dicts, scale_cache, entered_units>>
    /\ nops' = nops + 1

\* p[key]
GetItem(key) ==
    /\ More
    /\ DoneItem([op |-> "getitem", args |-> <<key>>, kwargs |-> EmptyDict, res |-> Ok, warn |-> {}],
                getitem(Obj, get_kwargs, key))

\* p.name
GetAttr(name) ==
    /\ More
    /\ Done([op |-> "getattr", args |-> <<name>>, kwargs |-> EmptyDict, res |-> Ok, warn |-> {}],
            getattr(Obj, name))

\* p.unit_add(unit): self.__units.add(unit); self.__units_custom.append(unit)
UnitAdd(unit) ==
    /\ More
    /\ unit_dicts' = dispenser_add(unit_dicts, units, unit)
    /\ Commit(unit_add(Obj, unit))
    /\ last' = [op |-> "unit_add", unit |-> unit, res |-> Ok, warn |-> {}]
    /\ UNCHANGED <<context_save, order, entered, get_kwargs, scale_cache, entered_units>>
    /\ nops' = nops + 1

\* a ** p * b ** q for two Units of the catalog of p
Combine(a, p, b, q) ==
    /\ More
    /\ Commit(Obj)
    /\ last' = [op |-> "combine", a |-> a, p |-> p, b |-> b, q |-> q, warn |-> {},
                res |-> units_mul(units_pow(a, p), units_pow(b, q))]
    /\ Frame

\* p.units.add_scaling(dim_from, dim_to, scaling, context)
AddScaling(dim_from, dim_to, factor, cx) ==
    /\ More
    /\ Commit(Obj)
    /\ unit_dicts' = [unit_dicts EXCEPT ![units._scalings] =
                          add_scaling(@, dim_from, dim_to, factor, cx),
                                        ![units._contexts] = add_context(@, cx)]
    /\ last' = [op |-> "add_scaling", context |-> cx, res |-> Ok, warn |-> {}]
    /\ UNCHANGED <<context_save, order, entered, get_kwargs, scale_cache, entered_units>>
    /\ nops' = nops + 1

\* the end of a set_context with the outcome sc: a dispenser that took the
\* context has forgotten the Units objects it had handed out
DoneContext(l, sc) ==
    /\ Commit([Obj EXCEPT !.units = sc.D])
    /\ unit_dicts' = sc.H
    /\ scale_cache' = IF IsErr(sc.r) THEN scale_cache ELSE EmptyDict
    /\ last' = [l EXCEPT !.res = sc.r]
    /\ UNCHANGED <<context_save, order, entered, get_kwargs, entered_units>>
    /\ nops' = nops + 1

\* p.set_units_context(name)
SetUnitsContext(name) ==
    /\ More
    /\ DoneContext([op |-> "set_units_context", context |-> name, res |-> Ok, warn |-> {}],
                   set_context(unit_dicts, units, name, "cache" \o ToString(nops)))

\* the end of a call of the dispenser with the outcome c
DoneUnitsCall(l, c) ==
    /\ Commit(Obj)
    /\ unit_dicts' = c.H
    /\ last' = [l EXCEPT !.res = c.r]
    /\ UNCHANGED <<context_save, order, entered, get_kwargs, scale_cache, entered_units>>
    /\ nops' = nops + 1

\* ud(arg) for the dispenser ud of the object
UnitsCall(arg) ==
    /\ More
    /\ DoneUnitsCall([op |-> "units_call", arg |-> arg, res |-> Ok, warn |-> {}],
                     dispenser_call(unit_dicts, units, arg, nops))

\* the end of a.scale(b, context), recorded as l with the outcome s
DoneScale(l, s) ==
    /\ Commit(Obj)
    /\ scale_cache' = Put(scale_cache, l.a, s.cache)
    /\ last' = [l EXCEPT !.res = s.r]
    /\ UNCHANGED <<context_save, order, entered, get_kwargs, unit_dicts, entered_units>>
    /\ nops' = nops + 1

\* p.units(a).scale(p.units(b), context)
Scale(a, b, cx) ==
    /\ More
    /\ DoneScale([op |-> "scale", a |-> a, b |-> b, context |-> cx, res |-> Ok, warn |-> {}],
                 units_scale(unit_dicts[units._scalings], units._context_current,
                             IF a \in DOMAIN scale_cache THEN scale_cache[a] ELSE EmptyDict,
                             a, b, cx))

\* p.units.add_conversion_map(unit_from, unit_to, mapping, absolute, context)
AddConversionMap(unit_from, unit_to, mapping, absolute, cx) ==
    /\ More
    /\ Commit(Obj)
    /\ unit_dicts' = add_conversion_map(unit_dicts, units, unit_from, unit_to, mapping,
                                        absolute, cx)
    /\ last' = [op |-> "add_conversion_map", context |-> cx, res |-> Ok, warn |-> {}]
    /\ UNCHANGED <<context_save, order, entered, get_kwargs, scale_cache, entered_units>>
    /\ nops' = nops + 1

\* the end of self(us, context=cx), recorded as l with the outcome c
DoneCall(l, c) ==
    /\ Commit(Obj)
    /\ unit_dicts' = c.H
    /\ scale_cache' = c.cache
    /\ last' = [l EXCEPT !.res = c.r, !.raised = c.raised, !.map = c.map]
    /\ UNCHANGED <<context_save, order, entered, get_kwargs, entered_units>>
    /\ nops' = nops + 1

\* self(us, context=cx) for a Quantity self of the dispenser; from is the
\* Quantity that self was converted from, or None
QuantityCall(self, from, us, cx) ==
    /\ More
    /\ DoneCall([op |-> "quantity_call", self |-> self, from |-> from, units |-> us,
                 context |-> cx, res |-> Ok, raised |-> None, map |-> None, warn |-> {}],
                quantity_call(unit_dicts, units, scale_cache, self, us, cx))

\* a == b and hash(a), hash(b) for two Units objects
UnitsEq(a, b) ==
    /\ More
    /\ Commit(Obj)
    /\ last' = [op |-> "units_eq", a |-> a, b |-> b, res |-> Units_eq(a, b),
                hash_a |-> Units_hash(a), hash_b |-> Units_hash(b), warn |-> {}]
    /\ Frame

\* the end of an operation that builds the Units object r
DoneUnits(l, r) ==
    /\ Commit(Obj)
    /\ last' = [l EXCEPT !.res = r]
    /\ Frame

\* Units(arg)
UnitsBuild(arg) ==
    /\ More
    /\ DoneUnits([op |-> "units_new", arg |-> arg, res |-> Ok, warn |-> {}], Units(arg))

\* a * b and a / b for two Units objects
UnitsTimes(a, b) ==
    /\ More
    /\ DoneUnits([op |-> "units_mul", a |-> a, b |-> b, res |-> Ok, warn |-> {}],
                 Units_mul(a, b))
UnitsOver(a, b) ==
    /\ More
    /\ DoneUnits([op |-> "units_div", a |-> a, b |-> b, res |-> Ok, warn |-> {}],
                 Units_div(a, b))

\* a ** k
UnitsPower(a, k) ==
    /\ More
    /\ DoneUnits([op |-> "units_pow", a |-> a, k |-> k, res |-> Ok, warn |-> {}],
                 Units_pow(a, k))

\* self + other, self - other, and other + self, other - self when other is
\* not a Quantity (reverse)
QuantityAdd_(self, other, sign, reverse) ==
    /\ More
    /\ Commit(Obj)
    /\ last' = [op |-> "quantity_add", self |-> self, other |-> other, sign |-> sign,
                reverse |-> reverse, warn |-> {},
                res |-> quantity_add(unit_dicts[units._scalings], units._context_current,
                                     self, other, sign, reverse)]
    /\ Frame

\* p.forget(param)
Forget(param) ==
    /\ More
    /\ Commit(remove(Obj, param))
    /\ last' = [op |-> "forget", param |-> param, res |-> Ok, warn |-> {}]
    /\ Frame

\* p.scaling(length=q)
Scaling(q) ==
    /\ More
    /\ Done([op |-> "scaling", q |-> q, res |-> Ok, warn |-> {}], scaling(Obj, q))

\* p.set_bounds({key: (lo, hi)}, error, clip, inclusive)
SetBounds(key, lo, hi, error, clip, inclusive) ==
    /\ More
    /\ Done([op |-> "set_bounds", param |-> key, res |-> Ok, warn |-> {}],
            set_bounds(Obj, key, lo, hi, error, clip, inclusive))

\* p & {param: units}
And(param, us) ==
    /\ More
    /\ Done([op |-> "and", param |-> param, units |-> us, res |-> Ok, warn |-> {}],
            and(Obj, param, us))

\* p.cache(kwarg=cache_on)
Cache(kwarg, cache_on) ==
    /\ More
    /\ Commit(cache(Obj, kwarg, cache_on))
    /\ last' = [op |-> "cache", param |-> kwarg, res |-> Ok, warn |-> {}]
    /\ Frame

\* Parameters.__enter__
Enter ==
    /\ Len(context_save) < MaxScopes
    /\ context_save' = Append(context_save, context(Obj))
    /\ entered' = Append(entered, Store(Obj))
    /\ entered_units' = Append(entered_units, dispenser_units(unit_dicts, units))
    /\ last' = [op |-> "enter", res |-> Ok, warn |-> {}]
    /\ UNCHANGED <<parameters, parameters_spec, parameters_bounds, scalings, default_scaled,
                   units, units_custom, unit_dicts, scale_cache,
                   cache_deps, cache_sups, cache_scaled, cache_funcs, scaling_cache,
                   order, get_kwargs, nops>>

\* Parameters.__exit__
Exit ==
    /\ Len(context_save) > 0
    /\ Commit(exit(Obj, context_save[Len(context_save)]))
    /\ context_save' = Front(context_save)
    /\ entered' = Front(entered)
    /\ entered_units' = Front(entered_units)
    /\ last' = [op |-> "exit", res |-> Ok, warn |-> {},
                changed |-> Store(Obj) # context_save[Len(context_save)]]
    /\ UNCHANGED <<order, get_kwargs, nops, unit_dicts, scale_cache>>

\* the iteration orders a dict of the three names can have
Orders == {<<X, Y, Z>>, <<X, Z, Y>>, <<Y, X, Z>>, <<Y, Z, X>>, <<Z, X, Y>>, <<Z, Y, X>>}

\* Parameters.__init__(default_scaled=ds)
New(ds, ord) ==
    [parameters |-> EmptyDict, parameters_spec |-> EmptyDict,
     parameters_bounds |-> [none |-> TRUE, d |-> EmptyDict],
     scalings |-> EmptyDict, default_scaled |-> ds, order |-> ord,
     units |-> [_units |-> "units", _scalings |-> "scalings", _contexts |-> "contexts",
                _conversions |-> "conversions", _convertable_units |-> "convertable_units",
                _conversions_cache |-> "conversions_cache", _context_current |-> "False",
                _cache |-> "cache", _dimensions |-> "dimensions"],
     units_custom |-> << >>,
     cache_deps |-> EmptyDict, cache_sups |-> EmptyDict, cache_scaled |-> EmptyDict,
     cache_funcs |-> EmptyDict, scaling_cache |-> EmptyDict, warn |-> {}]

\* the dicts _units and _dimensions of a new SIUnitDispenser, for the units
\* that the model uses
BuiltinUnits ==
    [u \in DOMAIN UnitCatalog |->
        Unit(u, u, UnitCatalog[u].rel, UnitCatalog[u].dimensions)]
BuiltinBasis ==
    [d \in {"length", "time"} |-> BuiltinUnits[IF d = "length" THEN "m" ELSE "s"]]

\* the state in which the object is P
Start(P) ==
    /\ parameters = P.parameters
    /\ parameters_spec = P.parameters_spec
    /\ parameters_bounds = P.parameters_bounds
    /\ scalings = P.scalings
    /\ default_scaled = P.default_scaled
    /\ units = P.units
    /\ units_custom = P.units_custom
    /\ unit_dicts = [d \in {P.units._units, P.units._scalings, P.units._contexts,
                             P.units._conversions, P.units._convertable_units,
                             P.units._conversions_cache, P.units._cache,
                             P.units._dimensions} |->
                         IF d = P.units._units THEN BuiltinUnits
                         ELSE IF d = P.units._dimensions THEN BuiltinBasis
                         ELSE IF d = P.units._convertable_units THEN {}
                         ELSE EmptyDict]
    /\ scale_cache = EmptyDict
    /\ entered_units = << >>
    /\ cache_deps = P.cache_deps
    /\ cache_sups = P.cache_sups
    /\ cache_scaled = P.cache_scaled
    /\ cache_funcs = P.cache_funcs
    /\ scaling_cache = P.scaling_cache
    /\ order = P.order
    /\ context_save = << >>
    /\ entered = << >>
    /\ get_kwargs = EmptyDict
    /\ last = [op |-> "init", res |-> Ok, warn |-> {}]
    /\ nops = 0

(***************************************************************************)
(* Definitions: set_raw and forget from an empty store                     *)
(***************************************************************************)
\* the (name, value) pairs given to set_raw
DefInputs ==
    {<<Y, Fn(F(<<X>>, FALSE, "sum"))>>,          \* y = lambda x: x
     <<Z, Fn(F(<<Y>>, FALSE, "sum"))>>,          \* z = lambda y: y
     <<X, Fn(F(<<Y>>, FALSE, "sum"))>>,          \* x = lambda y: y
     <<X, Fn(F(<<Z>>, FALSE, "sum"))>>,          \* x = lambda z: z
     <<X, Fn(F(<<Under(Y)>>, FALSE, "sum"))>>,   \* x = lambda _y: _y
     <<Y, Fn(F(<<X, Y>>, TRUE, "sum"))>>,        \* y = lambda x, y=None: x if y is None else y
     <<X, Fn(F(<<Y, X>>, TRUE, "sum"))>>,        \* x = lambda y, x=None: y if x is None else x
     <<X, Fn(F(<<X>>, FALSE, "sum"))>>,          \* x = lambda x: x
     <<Z, Fn(F(<<X, Y>>, TRUE, "sum"))>>,        \* z = lambda x, y=None: ..
     <<X, Num(R(3))>>, <<Y, Num(R(3))>>, <<Z, Num(R(3))>>}

InitDef == \E ord \in Orders : Start(New(TRUE, ord))

NextDef ==
    \/ \E d \in DefInputs : SetRaw(d[1], d[2])
    \/ \E param \in Names : Forget(param)

SpecDef == InitDef /\ [][NextDef]_vars

(***************************************************************************)
(* The dependency graph of the stored functions                            *)
(***************************************************************************)
\* p depends on q: q is an argument of the function stored under p, the
\* leading underscore stripped, other than p's own self-reference
DependsOn(p, q) ==
    /\ p \in DOMAIN parameters
    /\ parameters[p].t = "fn"
    /\ q # p
    /\ \E i \in 1..Len(parameters[p].f.args) : get_pam_name(parameters[p].f.args[i]) = q

\* a path of one, two or three edges
Reaches(p, q) ==
    \/ DependsOn(p, q)
    \/ \E r \in Names : DependsOn(p, r) /\ DependsOn(r, q)
    \/ \E r, s \in Names : DependsOn(p, r) /\ DependsOn(r, s) /\ DependsOn(s, q)

\* C2: after every accepted set_raw, set or forget the dependency graph of
\* the stored functions has no cycle, an argument _y counting as a
\* dependency on y.
C2_Acyclic == \A p \in Names : ~Reaches(p, p)

\* p names q as an argument, as written
Names_(p, q) ==
    /\ p \in DOMAIN parameters
    /\ parameters[p].t = "fn"
    /\ q # p
    /\ q \in SeqToSet(parameters[p].f.args)

\* a chain of stored functions leads from p to q by the names as written
LeadsTo(p, q) ==
    \/ Names_(p, q)
    \/ \E r \in Names : Names_(p, r) /\ Names_(r, q)
    \/ \E r, s \in Names : Names_(p, r) /\ Names_(r, s) /\ Names_(s, q)

\* g is a function of other parameters only
Plain(param, g) ==
    ~g.dflt /\ param \notin SeqToSet(g.args) /\ Under(param) \notin SeqToSet(g.args)

ScopeSets == {<<Y, Fn(F(<<X>>, FALSE, "sq"))>>}
ScopeUpdates == {[k \in {X} |-> Qty(R(1), U_km)]}
ScopeScalings == {Qty(R(1), U_km)}
ScopeBounds == {<<X, Num(R(0)), Num(R(100))>>}
ScopeUnits == {<<X, U_m>>}

Init == \E ord \in {<<X, Y, Z>>} : Start(New(TRUE, ord))

Next ==
    \/ \E d \in ScopeSets : SetRaw(d[1], d[2])
    \/ \E kwargs \in ScopeUpdates : Set(kwargs)
    \/ Forget(X)
    \/ \E q \in ScopeScalings : Scaling(q)
    \/ \E b \in ScopeBounds : SetBounds(b[1], b[2], b[3], TRUE, FALSE, TRUE)
    \/ \E u \in ScopeUnits : And(u[1], u[2])
    \/ Enter
    \/ Exit

Spec == Init /\ [][Next]_vars

\* C4: every __exit__ leaves definitions, declared units, bounds, scalings
\* and default_scaled exactly as they were at the matching __enter__, the
\* innermost open scope first.
C4_ExitRestores ==
    [][last'.op = "exit" =>
          /\ Len(entered) > 0
          /\ Store(Obj)' = entered[Len(entered)]
          /\ entered' = Front(entered)]_vars

\* an inner scope has been left, undoing a change made in it, while the outer
\* scope, itself holding a change, is still open
C4_Witness ==
    /\ last.op = "exit"
    /\ last.changed
    /\ Len(entered) = 1
    /\ Store(Obj) # entered[1]

(***************************************************************************)
(* Retrieval with overrides: x = 3, y = x**2, z = x invertibly             *)
(***************************************************************************)
\* the definitions given to set_raw
GetDefs ==
    {<<X, Num(R(3))>>,
     <<Y, Fn(F(<<X>>, FALSE, "sq"))>>,           \* y = lambda x: x**2
     <<Z, Fn(F(<<X, Z>>, TRUE, "sum"))>>}        \* z = lambda x, z=None: x if z is None else z

\* the calls p(*args, **kwargs)
GetCalls ==
    {<<<<Y>>, [k \in {X} |-> Num(R(5))]>>,                         \* a constant
     <<<<Y>>, [k \in {Z} |-> Num(R(5))]>>,                         \* an invertible function
     <<<<Y>>, [k \in {X} |-> Fn(F(<< >>, FALSE, "sum"))]>>,        \* a function value
     <<<<X, Y>>, [k \in {Y} |-> Num(R(5))]>>,                      \* a function that is not invertible
     <<<<Under(X)>>, [k \in {X} |-> Qty(R(1), U_km)]>>,            \* a quantity
     <<<<X>>, EmptyDict>>,
     <<<<Y>>, EmptyDict>>}

\* the overrides given to set
GetSets == {[k \in {Y} |-> Num(R(5))]}

\* the names whose functions may be cached
GetCached == {Y}

InitGet == \E ds \in BOOLEAN : Start(New(ds, <<X, Y, Z>>))
NextGet == \/ \E d \in GetDefs : SetRaw(d[1], d[2])
           \/ \E c \in GetCalls : Get(c[1], c[2])
           \/ \E kwargs \in GetSets : Set(kwargs)
           \/ \E kwarg \in GetCached : Cache(kwarg, TRUE)
SpecGet == InitGet /\ [][NextGet]_vars

\* the names a caller can ask for, in either form
Askable == Names \cup {Under(n) : n \in Names}

\* what p(a) returns for every name a, asked of the object P
Answers(P) == [a \in Askable |-> get(P, P, <<a>>, EmptyDict, P.default_scaled).r]

ScaleDefs == {<<X, Qty(R(1), U_km)>>}
ScaleCalls == {<<<<X>>, EmptyDict>>, <<<<Under(X)>>, EmptyDict>>}
ScaleScalings == {Qty(R(1), U_km), Qty(R(1), U_m)}

InitScale == \E ds \in BOOLEAN : Start(New(ds, <<X, Y, Z>>))
NextScale == \/ \E d \in ScaleDefs : SetRaw(d[1], d[2])
             \/ \E c \in ScaleCalls : Get(c[1], c[2])
             \/ \E c \in ScaleCalls : GetInverted(c[1], c[2])
             \/ \E q \in ScaleScalings : Scaling(q)
             \/ Forget(X)
SpecScale == InitScale /\ [][NextScale]_vars

\* the name under which p(..) returns the scaled form of x
ScaledX == IF default_scaled THEN X ELSE Under(X)

\* C5: whenever the scaled form of the stored x = 1 km has just been
\* retrieved, the value reported is 1 if the length scaling in force is 1 km
\* and 1000 if it is the default or 1 m, whatever was retrieved before the
\* scaling was last changed.
C5_ScalingTakesEffect ==
    (/\ last.op = "get" /\ last.args = <<ScaledX>> /\ last.kwargs = EmptyDict
     /\ X \in DOMAIN parameters /\ parameters[X] = Qty(R(1), U_km))
    => last.res = IF "length" \in DOMAIN scalings /\ scalings["length"] = Qty(R(1), U_km)
                  THEN Num(R(1))
                  ELSE Num(R(1000))

(***************************************************************************)
(* Bounds: x declared in metres, bounded by [0, 100], then assigned         *)
(***************************************************************************)
\* the arguments of set_bounds: key, lo, hi, error, clip, inclusive
BoundInputs ==
    {<<X, Num(R(0)), Num(R(100)), TRUE, FALSE, TRUE>>,
     <<X, Qty(R(0), U_m), Qty(R(100), U_m), TRUE, FALSE, FALSE>>,
     <<X, Num(R(0)), Num(R(100)), TRUE, TRUE, TRUE>>,
     <<X, Num(R(0)), Num(R(100)), FALSE, TRUE, TRUE>>}

\* the constants assigned to x
BoundValues ==
    {Qty(R(50), U_m), Qty(R(1), U_km), Num(R(150)), Num(R(100)), Num(R(-5))}

\* the calls p(*args, **kwargs)
BoundCalls ==
    {<<<<X>>, EmptyDict>>,
     <<<<Under(X)>>, EmptyDict>>,
     <<<<X>>, [k \in {X} |-> Num(R(150))]>>,
     <<<<Under(X)>>, [k \in {X} |-> Num(R(150))]>>}

InitBounds == Start(New(TRUE, <<X, Y, Z>>))
NextBounds == \/ \E b \in BoundInputs : SetBounds(b[1], b[2], b[3], b[4], b[5], b[6])
              \/ \E v \in BoundValues : SetRaw(X, v)
              \/ \E v \in BoundValues : Set([k \in {X} |-> v])
              \/ \E c \in BoundCalls : Get(c[1], c[2])
SpecBounds == InitBounds /\ [][NextBounds]_vars

\* the magnitude of a constant in base units, under the default scalings: a
\* bare number is a scaled value
PhysOf(v) == IF v.t = "qty" THEN RMul(v.v, UnitsRel(v.u)) ELSE v.v

\* the unit in which a constant assigned to x is read
UnitOf(v) == IF v.t = "qty" THEN v.u ELSE spec_unit(Obj, X)

\* the single interval registered for x holds v
InsideBound(v) ==
    IF parameters_bounds.d[X].inclusive
    THEN /\ RLe(PhysOf(parameters_bounds.d[X].bounds[1][1]), PhysOf(v))
         /\ RLe(PhysOf(v), PhysOf(parameters_bounds.d[X].bounds[1][2]))
    ELSE /\ RLt(PhysOf(parameters_bounds.d[X].bounds[1][1]), PhysOf(v))
         /\ RLt(PhysOf(v), PhysOf(parameters_bounds.d[X].bounds[1][2]))

\* the constant that the call recorded in l assigns to x
Assigned(l) == IF l.op = "set_raw" THEN l.val ELSE l.kwargs[X]

\* the call recorded in l assigns a constant to x, which has one interval
\* registered with the flags error and clip, in the dimension of the constant
AssignsBounded(l, error, clip) ==
    /\ \/ l.op = "set_raw" /\ l.param = X
       \/ l.op = "set" /\ DOMAIN l.kwargs = {X}
    /\ Assigned(l).t \in {"num", "qty"}
    /\ scalings = EmptyDict
    /\ ~parameters_bounds.none /\ X \in DOMAIN parameters_bounds.d
    /\ parameters_bounds.d[X].error = error /\ parameters_bounds.d[X].clip = clip
    /\ Len(parameters_bounds.d[X].bounds) = 1
    /\ UnitsDimensions(UnitOf(Assigned(l)))
           = UnitsDimensions(parameters_bounds.d[X].bounds[1][1].u)

\* C6: with a bound registered on x with error=True and clip=False, set and
\* set_raw of a constant outside the bound raise ParameterOutsideBoundsError
\* and leave the definitions as they were, and set and set_raw of a constant
\* inside the bound store it as the value of x.
C6_OutsideBoundsRejected ==
    [][AssignsBounded(last', TRUE, FALSE) =>
          IF InsideBound(Assigned(last'))
          THEN /\ last'.res = Ok
               /\ X \in DOMAIN parameters' /\ parameters'[X].t = "qty"
               /\ PhysOf(parameters'[X]) = PhysOf(Assigned(last'))
          ELSE /\ last'.res = Err("ParameterOutsideBoundsError")
               /\ parameters' = parameters]_vars

\* x = 50 m is stored with the bound [0, 100] under error=True, clip=False,
\* and p << {'x': (1, 'km')} has been refused
C6_Witness ==
    /\ last.op = "set_raw" /\ last.param = X /\ last.val = Qty(R(1), U_km)
    /\ last.res = Err("ParameterOutsideBoundsError")
    /\ ~parameters_bounds.none /\ X \in DOMAIN parameters_bounds.d
    /\ parameters_bounds.d[X].error /\ ~parameters_bounds.d[X].clip
    /\ X \in DOMAIN parameters /\ parameters[X] = Qty(R(50), U_m)

\* x is stored as a constant that lies outside the single interval registered
\* for it, in the dimension of the constant, with error=True and clip=False
StoredOutside ==
    /\ X \in DOMAIN parameters /\ parameters[X].t = "qty"
    /\ scalings = EmptyDict
    /\ ~parameters_bounds.none /\ X \in DOMAIN parameters_bounds.d
    /\ parameters_bounds.d[X].error /\ ~parameters_bounds.d[X].clip
    /\ Len(parameters_bounds.d[X].bounds) = 1
    /\ UnitsDimensions(parameters[X].u) = UnitsDimensions(parameters_bounds.d[X].bounds[1][1].u)
    /\ ~InsideBound(parameters[X])

\* C28: with a bound registered on x with error=True and clip=False and a
\* stored constant outside it, p('x') and p('_x') raise
\* ParameterOutsideBoundsError, whatever was retrieved before the bound was set.
C28_BoundCheckedOnRetrieval ==
    (last.op = "get" /\ last.kwargs = EmptyDict /\ last.args \in {<<X>>, <<Under(X)>>}
        /\ StoredOutside)
    => last.res = Err("ParameterOutsideBoundsError")

\* the edge of the interval registered for x that is closest to v, the lower
\* one if both are as close
NearestEdge(v) ==
    IF RLe(RAbs(RSub(PhysOf(parameters_bounds.d[X].bounds[1][1]), PhysOf(v))),
           RAbs(RSub(PhysOf(parameters_bounds.d[X].bounds[1][2]), PhysOf(v))))
    THEN PhysOf(parameters_bounds.d[X].bounds[1][1])
    ELSE PhysOf(parameters_bounds.d[X].bounds[1][2])

\* C7: with a bound registered on x with clip=True, set and set_raw of a
\* constant outside the bound succeed and store the nearest edge of the bound
\* as the value of x (150 against [0, 100] gives 100).
C7_ClipsToNearestEdge ==
    [][(/\ \E error \in BOOLEAN : AssignsBounded(last', error, TRUE)
        /\ ~InsideBound(Assigned(last')))
       => /\ last'.res = Ok
          /\ X \in DOMAIN parameters' /\ parameters'[X].t = "qty"
          /\ PhysOf(parameters'[X]) = NearestEdge(Assigned(last'))]_vars

(***************************************************************************)
(* Inversions: x and y constants or functions of x, z invertible            *)
(***************************************************************************)
\* the definitions given to set_raw
InvDefs ==
    {<<X, Num(R(3))>>,
     <<Y, Num(R(1))>>,
     <<Y, Fn(F(<<X>>, FALSE, "sq"))>>,           \* y = lambda x: x**2
     <<Y, Fn(F(<<X, Y>>, TRUE, "sum"))>>,        \* y = lambda x, y=None: x if y is None else y
     <<Z, Fn(F(<<X, Z>>, TRUE, "sum"))>>,        \* z = lambda x, z=None: x if z is None else z
     <<Z, Fn(F(<<Y, Z>>, TRUE, "sum"))>>,        \* z = lambda y, z=None: y if z is None else z
     <<Z, Fn(F(<<X, Y, Z>>, TRUE, "sum"))>>}     \* z = lambda x, y, z=None: x + y if z is None else [x, z - x]

\* the overrides given to set
InvSets ==
    {[k \in {Z} |-> Num(R(5))],
     [k \in {Z} |-> Num(R(10))],
     [k \in {X, Z} |-> IF k = X THEN Num(R(4)) ELSE Num(R(5))],
     [k \in {Y, Z} |-> IF k = Y THEN Num(R(4)) ELSE Num(R(5))],
     [k \in {Y, Z} |-> IF k = Y THEN Num(R(3)) ELSE Num(R(10))]}

\* the calls p(*args, **kwargs)
InvCalls ==
    {<<<<X>>, [k \in {X, Z} |-> IF k = X THEN Num(R(4)) ELSE Num(R(5))]>>,
     <<<<X>>, [k \in {Y, Z} |-> IF k = Y THEN Num(R(4)) ELSE Num(R(5))]>>,
     <<<<X, Y>>, [k \in {Z} |-> Num(R(10))]>>}

InitInv == Start(New(TRUE, <<X, Y, Z>>))
NextInv == \/ \E d \in InvDefs : SetRaw(d[1], d[2])
           \/ \E kwargs \in InvSets : Set(kwargs)
           \/ \E c \in InvCalls : Get(c[1], c[2])
SpecInv == InitInv /\ [][NextInv]_vars

\* p is stored as an invertible function
Invertible(p) ==
    p \in DOMAIN parameters /\ parameters[p].t = "fn" /\ parameters[p].f.dflt

\* the dependencies of the invertible p other than p itself, as declared
OtherDeps(p) == Front(parameters[p].f.args)

\* the value p(d) has now, for a name d
Current(d) == get(Obj, Obj, <<d>>, EmptyDict, default_scaled).r

\* the value the function of p is called with for its dependency d
Given(kw, d) == IF d \in DOMAIN kw THEN kw[d] ELSE Current(d)

\* what the function of p returns when it is called with the values of its
\* dependencies and p = kw[p]
Returned(kw, p) ==
    Call(parameters[p].f,
         [i \in 1..Len(parameters[p].f.args) |->
             IF i < Len(parameters[p].f.args) THEN Given(kw, parameters[p].f.args[i])
             ELSE kw[p]])

\* its i-th element, a single value counting as a tuple of one
Element(kw, p, i) ==
    IF Returned(kw, p).t = "tup" THEN Returned(kw, p).s[i] ELSE Returned(kw, p)

\* the overrides are numbers, the store is unbounded and unscaled, and every
\* function among the overridden names is invertible with dependencies
\* that are overridden or stored as plain numbers
PlainOverrides(kw) ==
    /\ default_scaled /\ scalings = EmptyDict /\ parameters_bounds.none
    /\ \A p \in DOMAIN kw : kw[p].t = "num"
    /\ \A p \in DOMAIN kw :
           (p \in DOMAIN parameters /\ parameters[p].t = "fn") =>
               /\ Invertible(p)
               /\ \A d \in SeqToSet(OtherDeps(p)) :
                      \/ d \in DOMAIN kw
                      \/ /\ d \in DOMAIN parameters
                         /\ parameters[d].t = "qty" /\ parameters[d].u = Dimless

\* some inversion gives a dependency a value other than the one supplied for
\* it, or other than the one another inversion gives it
Conflict(kw) ==
    \E p \in DOMAIN kw :
       /\ Invertible(p)
       /\ \E i \in 1..Len(OtherDeps(p)) :
             \/ /\ OtherDeps(p)[i] \in DOMAIN kw
                /\ Element(kw, p, i) # kw[OtherDeps(p)[i]]
             \/ \E q \in DOMAIN kw \ {p} :
                   /\ Invertible(q)
                   /\ \E j \in 1..Len(OtherDeps(q)) :
                         /\ OtherDeps(q)[j] = OtherDeps(p)[i]
                         /\ Element(kw, q, j) # Element(kw, p, i)

\* C8: when the inversions of a get with overrides or of a set give a
\* dependency a value that differs from the one supplied for it in the same
\* overrides, or from the one another inversion gives it, the call fails with
\* ParameterOverSpecifiedError, and a failed set changes no definition.
C8_OverSpecifiedRejected ==
    [][(/\ last'.op \in {"get", "set"}
        /\ PlainOverrides(last'.kwargs)
        /\ Conflict(last'.kwargs))
       => /\ last'.res = Err("ParameterOverSpecifiedError")
          /\ last'.op = "set" => parameters' = parameters]_vars

\* x = 3 and z = x (invertible) are stored, and p(z=5, x=4) has been refused
C8_Witness ==
    /\ last.op = "set" /\ DOMAIN last.kwargs = {X, Z}
    /\ last.kwargs[X] = Num(R(4)) /\ last.kwargs[Z] = Num(R(5))
    /\ last.res = Err("ParameterOverSpecifiedError")
    /\ X \in DOMAIN parameters /\ parameters[X] = Qty(R(3), Dimless)
    /\ Invertible(Z) /\ OtherDeps(Z) = <<X>>

\* the call recorded in l is p(p=v) for a number v and the invertible p, in
\* an unbounded and unscaled store where every other dependency of p has a
\* number as its value
SetsInvertible(l, p) ==
    /\ l.op = "set" /\ DOMAIN l.kwargs = {p} /\ l.kwargs[p].t = "num"
    /\ default_scaled /\ scalings = EmptyDict /\ parameters_bounds.none
    /\ Invertible(p)
    /\ \A d \in SeqToSet(OtherDeps(p)) : Current(d).t = "num"

\* after the call, p is the function it was and every other dependency
\* holds the element the function returned for it
InverseStored(l, p, before, after) ==
    /\ l.res = Ok
    /\ p \in DOMAIN after /\ after[p] = before[p]
    /\ \A i \in 1..Len(OtherDeps(p)) :
           /\ OtherDeps(p)[i] \in DOMAIN after
           /\ after[OtherDeps(p)[i]].t = "qty"
           /\ after[OtherDeps(p)[i]] = Qty(Element(l.kwargs, p, i).v, Dimless)

\* C9 as stated: a set of the invertible z to v keeps z the same function
\* and stores, for every other dependency d_i of z, the i-th element of what
\* the function returns for the current dependency values and z = v.
C9_InverseStored ==
    [][\A p \in Names :
          SetsInvertible(last', p) => InverseStored(last', p, parameters, parameters')]_vars

\* C9, amended: the same, for a z none of whose other dependencies is
\* itself stored as an invertible function.
C9_InverseStoredPlain ==
    [][\A p \in Names :
          (/\ SetsInvertible(last', p)
           /\ \A d \in SeqToSet(OtherDeps(p)) : ~Invertible(d))
          => InverseStored(last', p, parameters, parameters')]_vars

\* x = 3, y = 1 and z = x + y (invertible) were stored, and p(z=10) has
\* stored x = 3 and y = 7 and left z the function
C9_Witness ==
    /\ last.op = "set" /\ DOMAIN last.kwargs = {Z} /\ last.kwargs[Z] = Num(R(10))
    /\ last.res = Ok
    /\ Invertible(Z) /\ OtherDeps(Z) = <<X, Y>>
    /\ X \in DOMAIN parameters /\ parameters[X] = Qty(R(3), Dimless)
    /\ Y \in DOMAIN parameters /\ parameters[Y] = Qty(R(7), Dimless)

(***************************************************************************)
(* Overriding a function that is not invertible (checked under SpecGet)    *)
(***************************************************************************)
\* the call recorded in l overrides with a number only p, which is stored as
\* a function that does not name itself, in an unbounded and unscaled store;
\* whatever else a get asks for is a stored constant
OverridesFunction(l, p) ==
    /\ l.op \in {"get", "set"}
    /\ DOMAIN l.kwargs = {p} /\ l.kwargs[p].t = "num"
    /\ p \in DOMAIN parameters /\ parameters[p].t = "fn" /\ ~Invertible(p)
    /\ scalings = EmptyDict /\ parameters_bounds.none
    /\ l.op = "get" =>
          \A i \in 1..Len(l.args) :
             \/ l.args[i] = p
             \/ l.args[i] \in DOMAIN parameters /\ parameters[l.args[i]].t = "qty"

\* the value v as a get hands it out for a dimensionless name
HandedOut(v) == IF default_scaled THEN Num(v) ELSE Qty(v, Dimless)

\* what the call recorded in l answered for p is the value it was given
UsesGiven(l, p) ==
    IF Len(l.args) = 1
    THEN l.res = HandedOut(l.kwargs[p].v)
    ELSE /\ l.res.t = "dict"
         /\ \A a \in DOMAIN l.res.d : a = p => l.res.d[a] = HandedOut(l.kwargs[p].v)

OverDefs == {<<X, Num(R(3))>>, <<Y, Num(R(1))>>}

\* the overrides of the calls
OverKwargs ==
    {[k \in {X} |-> Fn(F(<<X>>, FALSE, "sum"))],                     \* x = lambda x: x
     [k \in {X} |-> Fn(F(<<Y>>, FALSE, "sq"))],                      \* x = lambda y: y**2
     [k \in {X, Y} |-> IF k = X THEN Fn(F(<<Y>>, FALSE, "sum"))      \* x = lambda y: y,
                       ELSE Fn(F(<<X>>, FALSE, "sum"))],             \* y = lambda x: x
     [k \in {X, Y} |-> IF k = X THEN Fn(F(<<Y>>, FALSE, "sq"))       \* x = lambda y: y**2,
                       ELSE Fn(F(<<X>>, FALSE, "sq"))],              \* y = lambda x: x**2
     [k \in {X, Y} |-> IF k = X THEN Fn(F(<<Y>>, FALSE, "sq"))       \* x = lambda y: y**2,
                       ELSE Fn(F(<<Z>>, FALSE, "sum"))],             \* y = lambda z: z
     [k \in {X, Y} |-> IF k = X THEN Fn(F(<<Y>>, FALSE, "sq"))       \* x = lambda y: y**2,
                       ELSE Num(R(5))],                              \* y = 5
     [k \in {X, Y, Z} |-> IF k = X THEN Fn(F(<<Y>>, FALSE, "sum"))   \* x = lambda y: y,
                          ELSE IF k = Y THEN Fn(F(<<Z>>, FALSE, "sum")) \* y = lambda z: z,
                          ELSE Fn(F(<< >>, FALSE, "sum"))]}          \* z = lambda: 1

\* the names asked for
OverArgs == {<<X>>, <<Y>>, <<X, Y>>}

InitOver == \E ord \in Orders : Start(New(TRUE, ord))
NextOver == \/ \E d \in OverDefs : SetRaw(d[1], d[2])
            \/ \E args \in OverArgs, kwargs \in OverKwargs : Get(args, kwargs)
            \/ \E kwargs \in OverKwargs : Set(kwargs)
SpecOver == InitOver /\ [][NextOver]_vars

\* the override of p in kw is a function that names q as an argument
OverrideNames(kw, p, q) ==
    /\ p \in DOMAIN kw /\ kw[p].t = "fn"
    /\ \E i \in 1..Len(kw[p].f.args) : get_pam_name(kw[p].f.args[i]) = q

\* the function-valued overrides of kw depend on each other circularly
Circular(kw) ==
    \E p \in DOMAIN kw :
       \/ OverrideNames(kw, p, p)
       \/ \E q \in DOMAIN kw : OverrideNames(kw, p, q) /\ OverrideNames(kw, q, p)

\* C11: a call whose function-valued overrides depend on each other
\* circularly (x = f(y) with y = g(x), or x = f(x)) fails with the
\* ValueError of pam_ordering, before anything is evaluated or assigned.
C11_CircularRejected ==
    [][(last'.op \in {"get", "set"} /\ Circular(last'.kwargs))
          => last'.res = Err("ValueError") /\ parameters' = parameters]_vars

\* C12: a set with a function value for x, x not stored as a function and
\* the overrides not circular, stores x as a Constant (the function's value
\* at the time of the call); a set_raw with a function value stores the
\* Function itself.
C12_SetEvaluates ==
    [][/\ (last'.op = "set" /\ last'.res = Ok /\ ~Circular(last'.kwargs))
          => \A p \in DOMAIN last'.kwargs :
                (/\ last'.kwargs[p].t = "fn"
                 /\ (p \in DOMAIN parameters => parameters[p].t = "qty"))
                => p \in DOMAIN parameters' /\ parameters'[p].t = "qty"
       /\ (last'.op = "set_raw" /\ last'.res = Ok /\ last'.val.t = "fn")
          => parameters'[last'.param] = last'.val]_vars

\* the order in which the call evaluates the overrides kw: pam_order
EvaluationOrder(kw) ==
    pam_ordering(order, override_dependencies(kw, Keys(order, kw)), << >>)

\* the place at which e first stands in the list s
FirstAt(s, e) == CHOOSE i \in 1..Len(s) : s[i] = e /\ \A j \in 1..(i - 1) : s[j] # e

\* in the list s every function-valued override of kw stands after the
\* function-valued overrides that it names as arguments
DependenciesFirst(kw, s) ==
    \A p \in DOMAIN kw, q \in DOMAIN kw :
        (OverrideNames(kw, p, q) /\ kw[q].t = "fn") => FirstAt(s, q) < FirstAt(s, p)

\* C25: a call with function-valued overrides that are not circular
\* evaluates each of them after the function-valued overrides it depends
\* on, whatever the iteration order of the overrides.
C25_DependenciesEvaluatedFirst ==
    (last.op \in {"get", "set"} /\ ~Circular(last.kwargs)
        /\ ~IsErr(EvaluationOrder(last.kwargs)))
    => DependenciesFirst(last.kwargs, EvaluationOrder(last.kwargs).s)

(***************************************************************************)
(* The two forms of a parameter (checked under SpecScale)                   *)
(***************************************************************************)
\* what p(a) returns now, asked of the object P with the default ds
Asked(P, a, ds) == get(P, P, <<a>>, EmptyDict, ds).r

\* the name under which p(..) returns the form scaled of x
FormName(x, scaled) == IF scaled = default_scaled THEN x ELSE Under(x)

\* the number n is the quantity q divided by the scaling of its units
Agree(P, n, q) ==
    /\ n.t = "num" /\ q.t = "qty"
    /\ n.v = RDiv(q.v, unit_scaling(P, P, q.u).r)

\* C13: for every stored x, p('x') is the non-dimensional number when
\* default_scaled is true and the Quantity when it is false, p('_x') is the
\* other form, p._('x') is p('_x'), and the number is the Quantity's value
\* divided by the scaling of its units.
C13_FormsAgree ==
    \A x \in DOMAIN parameters :
       /\ Agree(Obj, Asked(Obj, FormName(x, TRUE), default_scaled),
                Asked(Obj, FormName(x, FALSE), default_scaled))
       /\ Asked(Obj, x, ~default_scaled) = Asked(Obj, Under(x), default_scaled)
       /\ Asked(Obj, Under(x), ~default_scaled) = Asked(Obj, x, default_scaled)

(***************************************************************************)
(* The three retrieval forms: x = 3, y = x**2, z = 1 as a function without *)
(* arguments, and a bound on x                                             *)
(***************************************************************************)
\* the definitions given to set_raw
ItemDefs ==
    {<<X, Num(R(3))>>, <<X, Num(R(7))>>,
     <<Y, Fn(F(<<X>>, FALSE, "sq"))>>,           \* y = lambda x: x**2
     <<Z, Fn(F(<< >>, FALSE, "sum"))>>}          \* z = lambda: 1

\* the names asked for
ItemKeys == {X, Under(X), Y, Z}

\* the arguments of set_bounds: key, lo, hi, error, clip, inclusive
ItemBounds == {<<X, Num(R(0)), Num(R(100)), TRUE, FALSE, TRUE>>}

InitItem == \E ds \in BOOLEAN : Start(New(ds, <<X, Y, Z>>))
NextItem == \/ \E d \in ItemDefs : SetRaw(d[1], d[2])
            \/ \E key \in ItemKeys : Get(<<key>>, EmptyDict)
            \/ \E key \in ItemKeys : GetItem(key)
            \/ \E key \in ItemKeys : GetAttr(key)
            \/ \E b \in ItemBounds : SetBounds(b[1], b[2], b[3], b[4], b[5], b[6])
SpecItem == InitItem /\ [][NextItem]_vars

\* C14: for every stored x, asked for as x or as _x, p(name), p.name and
\* p[name] return the same value.
C14_FormsEquivalent ==
    \A x \in DOMAIN parameters : \A name \in {x, Under(x)} :
       /\ getattr(Obj, name).r = Asked(Obj, name, default_scaled)
       /\ getitem(Obj, get_kwargs, name).r.r = Asked(Obj, name, default_scaled)

\* g is a function without arguments
ZeroArg(v) == v.t = "fn" /\ Len(v.f.args) = 0

\* C15: a function without arguments is a valid parameter value: set_raw
\* accepts and stores it, and p(name) of the parameter returns what the
\* function returns, as a number or as a Quantity by default_scaled.
C15_ZeroArgFunction ==
    [][/\ (last'.op = "set_raw" /\ ZeroArg(last'.val))
          => last'.res = Ok /\ parameters'[last'.param] = last'.val
       /\ (/\ last'.op = "get" /\ Len(last'.args) = 1 /\ last'.kwargs = EmptyDict
           /\ last'.args[1] \in DOMAIN parameters /\ ZeroArg(parameters[last'.args[1]]))
          => last'.res = HandedOut(Call(parameters[last'.args[1]].f, << >>).v)]_vars


(***************************************************************************)
(* Units of a constant: x is given with and without units, its declared    *)
(* units are changed, the length scale is changed and x is bounded         *)
(***************************************************************************)
\* the values given to x
UnitValues == {Qty(R(1), U_km), Num(R(5)), Fn(F(<<Y>>, FALSE, "sq"))}
UnitUpdates == {[k \in {X} |-> Num(R(7))]}
\* the units declared for x: m, km and the dimensionless unit
UnitSpecs == {U_m, U_km, Dimless}
UnitScalings == {Qty(R(1), U_km)}
\* set_bounds(x=(0, 6), error=False, clip=True)
UnitBounds == {<<X, Num(R(0)), Num(R(6)), FALSE, TRUE, TRUE>>}

InitUnit == \E ds \in BOOLEAN : Start(New(ds, <<X, Y, Z>>))
NextUnit == \/ \E v \in UnitValues : SetRaw(X, v)
            \/ \E kwargs \in UnitUpdates : Set(kwargs)
            \/ \E u \in UnitSpecs : And(X, u)
            \/ \E q \in UnitScalings : Scaling(q)
            \/ \E b \in UnitBounds : SetBounds(b[1], b[2], b[3], b[4], b[5], b[6])
            \/ Get(<<X>>, EmptyDict)
            \/ Forget(X)
SpecUnit == InitUnit /\ [][NextUnit]_vars

\* the call recorded as l gave the bare number v to x and succeeded
AssignsNumber(l, x, v) ==
    /\ l.res = Ok
    /\ v.t = "num"
    /\ \/ l.op = "set_raw" /\ l.param = x /\ l.val = v
       \/ l.op = "set" /\ x \in DOMAIN l.kwargs /\ l.kwargs[x] = v

\* x has no bounds
Unbounded(x) == parameters_bounds.none \/ x \notin DOMAIN parameters_bounds.d

Physical(q) == RMul(q.v, UnitsRel(q.u))

\* p & {x: U} was called while x held a Quantity
SpecifiesConstant(l, x) ==
    /\ l.op = "and" /\ l.param = x
    /\ x \in DOMAIN parameters /\ parameters[x].t = "qty"

\* C17: p & {x: U} on a stored constant x stores the same physical quantity
\* in units U, with the scaled value of x unchanged, and declares U for x;
\* if U and the units of x differ in dimension it fails with
\* UnitConversionError and leaves the stored value and declared units of x.
C17_SpecConverts ==
    [][SpecifiesConstant(last', X)
       => IF UnitsDimensions(last'.units) = UnitsDimensions(parameters[X].u)
          THEN /\ last'.res = Ok
               /\ parameters'[X].t = "qty"
               /\ parameters'[X].u = last'.units
               /\ Physical(parameters'[X]) = Physical(parameters[X])
               /\ Asked(Obj', X, TRUE) = Asked(Obj, X, TRUE)
               /\ units_of(Obj', X) = last'.units
          ELSE /\ last'.res = Err("UnitConversionError")
               /\ parameters'[X] = parameters[X]
               /\ units_of(Obj', X) = units_of(Obj, X)]_vars


(***************************************************************************)
(* The unit catalog in scopes: units are added inside and outside `with p:` *)
(***************************************************************************)
\* the identifiers of the units given to unit_add
CatalogUnits ==
    {Unit("foot", "ft", R(3), [d \in {"length"} |-> 1]),
     Unit("yard", "yd", R(9), [d \in {"length"} |-> 1])}
CatalogDefs == {<<X, Qty(R(1), U_km)>>}

InitCatalog == Start(New(TRUE, <<X, Y, Z>>))
NextCatalog == \/ \E u \in CatalogUnits : UnitAdd(u)
               \/ \E d \in CatalogDefs : SetRaw(d[1], d[2])
               \/ Forget(X)
               \/ Enter
               \/ Exit
SpecCatalog == InitCatalog /\ [][NextCatalog]_vars

\* C18: after every __exit__ the catalog recognises exactly the unit
\* identifiers it recognised at the matching __enter__, and the list of
\* custom units is the one at that __enter__.
C18_ExitRestoresCatalog ==
    [][last'.op = "exit" =>
          /\ Len(entered_units) > 0
          /\ dispenser_units(unit_dicts', units') = entered_units[Len(entered_units)]
          /\ units_custom' = entered[Len(entered)].units_custom]_vars


(***************************************************************************)
(* Units algebra: products of powers of Units                              *)
(***************************************************************************)
\* m, km/s, s, Hz and km/m as Units
AlgebraUnits ==
    {[u \in {"m"} |-> R(1)],
     [u \in {"km", "s"} |-> IF u = "km" THEN R(1) ELSE R(-1)],
     [u \in {"s"} |-> R(1)],
     [u \in {"Hz"} |-> R(1)],
     [u \in {"km", "m"} |-> IF u = "km" THEN R(1) ELSE R(-1)]}
\* the exponents: -1, 0, 1/2, 2
AlgebraPowers == {R(-1), R(0), <<1, 2>>, R(2)}

InitAlgebra == Start(New(TRUE, <<X, Y, Z>>))
NextAlgebra == \E a \in AlgebraUnits, b \in AlgebraUnits, p \in AlgebraPowers, q \in AlgebraPowers :
                  Combine(a, p, b, q)
SpecAlgebra == InitAlgebra /\ [][NextAlgebra]_vars

\* p * da + q * db for two dimension vectors, the exponents 0 left out
Linear(p, da, q, db) ==
    [key \in {k \in (DOMAIN da) \cup (DOMAIN db) :
                 RAdd(RMul(p, GetR(da, k)), RMul(q, GetR(db, k))) # R(0)}
        |-> RAdd(RMul(p, GetR(da, key)), RMul(q, GetR(db, key)))]

\* C19: the dimension vector of a^p * b^q is p times that of a plus q times
\* that of b, and holds no dimension whose exponent is 0.
C19_DimensionsAdditive ==
    last.op = "combine"
    => /\ units_dimensions(last.res)
            = Linear(last.p, units_dimensions(last.a), last.q, units_dimensions(last.b))
       /\ \A k \in DOMAIN units_dimensions(last.res) : units_dimensions(last.res)[k] # R(0)

\* s^2 * Hz^2: both Units stay in the product and its dimension vector is
\* empty
C19_Witness ==
    /\ last.op = "combine"
    /\ last.a = [u \in {"s"} |-> R(1)] /\ last.p = R(2)
    /\ last.b = [u \in {"Hz"} |-> R(1)] /\ last.q = R(2)
    /\ last.res = [u \in {"s", "Hz"} |-> R(2)]
    /\ units_dimensions(last.res) = EmptyDict


(***************************************************************************)
(* Conversion factors between Units, with scalings between dimensions      *)
(* registered in the context c and in no context                           *)
(***************************************************************************)
\* m, km, s and Hz as Units
ConvertUnits == {[u \in {n} |-> R(1)] : n \in {"m", "km", "s", "Hz"}}
\* the dimension vectors length, time and 1/time
Length == [d \in {"length"} |-> R(1)]
Time == [d \in {"time"} |-> R(1)]
PerTime == [d \in {"time"} |-> R(-1)]
\* the scalings given to add_scaling: dim_from, dim_to, scaling, context
ConvertScalings ==
    {<<Length, PerTime, R(3), "c">>,
     <<Length, PerTime, R(7), Global>>,
     <<Time, Length, R(5), Global>>}
ConvertContexts == {False, Global, "c"}

InitConvert == Start(New(TRUE, <<X, Y, Z>>))
NextConvert == \/ \E s \in ConvertScalings : AddScaling(s[1], s[2], s[3], s[4])
               \/ SetUnitsContext("c")
               \/ \E a \in ConvertUnits, b \in ConvertUnits, cx \in ConvertContexts :
                     Scale(a, b, cx)
SpecConvert == InitConvert /\ [][NextConvert]_vars

\* the scaling t is registered between the dimension vectors da and db
Between(t, da, db) == (t[1] = da /\ t[2] = db) \/ (t[1] = db /\ t[2] = da)

\* the context c defines a scaling between da and db
Defines(c, da, db) ==
    /\ c \in DOMAIN unit_dicts[units._scalings]
    /\ \E i \in 1..Len(unit_dicts[units._scalings][c]) :
          Between(unit_dicts[units._scalings][c][i], da, db)

\* the factor of the scaling t from da to db
Factor(t, da, db) == IF t[1] = da /\ t[2] = db THEN t[3] ELSE RDiv(R(1), t[3])

\* the factor from da to db that the context c defines
Registered(c, da, db) ==
    Factor(unit_dicts[units._scalings][c]
               [CHOOSE i \in 1..Len(unit_dicts[units._scalings][c]) :
                    Between(unit_dicts[units._scalings][c][i], da, db)], da, db)

\* the context a call of scale with the argument cx looks in first
Queried(cx) ==
    IF cx # False THEN cx
    ELSE IF units._context_current # False THEN units._context_current ELSE Global

\* a.rel / b.rel
Ratio(a, b) == RDiv(units_rel(a), units_rel(b))

\* what a.scale(b, context=cx) is to return, given the dimension vectors
Converts(a, b, cx, da, db) ==
    IF da = db THEN Num(Ratio(a, b))
    ELSE IF Defines(Queried(cx), da, db)
    THEN Num(RMul(Ratio(a, b), Registered(Queried(cx), da, db)))
    ELSE IF Defines(Global, da, db)
    THEN Num(RMul(Ratio(a, b), Registered(Global, da, db)))
    ELSE Err("UnitConversionError")

\* C20: a.scale(b) is a.rel / b.rel if the dimension vectors of a and b are
\* equal; if they differ it is a.rel / b.rel times the scaling between them
\* that the active or queried context defines, or else the one that the
\* scalings of no context define, inverted if registered from b to a; and
\* UnitConversionError in every other case.
C20_ScaleBetweenUnits ==
    last.op = "scale"
    => last.res = Converts(last.a, last.b, last.context,
                           units_dimensions(last.a), units_dimensions(last.b))

\* Hz to km in the active context c, which registers length -> 1/time as 3,
\* while the scalings of no context register it as 7: 1/1000 * 1/3
C20_Witness ==
    /\ last.op = "scale" /\ last.context = False
    /\ units._context_current = "c"
    /\ last.a = [u \in {"Hz"} |-> R(1)] /\ last.b = [u \in {"km"} |-> R(1)]
    /\ Defines("c", PerTime, Length) /\ Defines(Global, PerTime, Length)
    /\ last.res = Num(<<1, 3000>>)


(***************************************************************************)
(* Quantity arithmetic: sums and differences of absolute and relative      *)
(* quantities, pairs and numbers                                           *)
(***************************************************************************)
\* m, km and no units
ArithUnits == {[u \in {"m"} |-> R(1)], [u \in {"km"} |-> R(1)], EmptyDict}
ArithQuantities == {Quantity(R(2), us, ab) : us \in ArithUnits, ab \in BOOLEAN}
\* the right operands, and the left operands of the reflected operators
ArithOthers ==
    ArithQuantities \cup {Pair(R(2), us) : us \in ArithUnits} \cup {Num(R(0)), Num(R(2))}

InitArith == Start(New(TRUE, <<X, Y, Z>>))
NextArith == \E self \in ArithQuantities, other \in ArithOthers, sign \in {1, -1}, reverse \in BOOLEAN :
                /\ reverse => other.t # "quantity"
                /\ QuantityAdd_(self, other, sign, reverse)
SpecArith == InitArith /\ [][NextArith]_vars

\* the operand is absolute: a pair or a number never is
IsAbsolute(operand) == operand.t = "quantity" /\ operand.absolute

\* C21: the sum or difference of two operands is absolute exactly when
\* exactly one of them is, and has the units of the left operand (of the
\* right one when the left operand is a bare number, which has none).
C21_AbsoluteOfSum ==
    (last.op = "quantity_add" /\ ~IsErr(last.res))
    => /\ last.res.absolute = (IsAbsolute(last.self) # IsAbsolute(last.other))
       /\ last.res.units = IF last.reverse /\ last.other.t # "num"
                           THEN last.other.units ELSE last.self.units


(***************************************************************************)
(* Conversion of quantities with conversion maps registered                *)
(***************************************************************************)
Metre == [u \in {"m"} |-> R(1)]
KiloMetre == [u \in {"km"} |-> R(1)]
\* the maps given to add_conversion_map: unit_from, unit_to, mapping,
\* absolute, context; the third needs a parameter k of its context
MapConversions ==
    {<<Metre, KiloMetre, Lambda(<<"v">>, "square"), FALSE, Global>>,
     <<Metre, KiloMetre, Lambda(<<"v">>, "offset"), TRUE, Global>>,
     <<Metre, KiloMetre, Lambda(<<"v", "k">>, "scaled"), FALSE, "c">>}
MapQuantities ==
    {Quantity(R(2), Metre, FALSE), Quantity(R(2), Metre, TRUE), Quantity(R(2), KiloMetre, FALSE)}
MapContexts == {False, Global, "c"}

InitMap == Start(New(TRUE, <<X, Y, Z>>))
NextMap == \/ \E c \in MapConversions : AddConversionMap(c[1], c[2], c[3], c[4], c[5])
           \/ SetUnitsContext("c")
           \/ \E self \in MapQuantities, us \in {Metre, KiloMetre}, cx \in MapContexts :
                 /\ us # self.units
                 /\ QuantityCall(self, None, us, cx)
           \/ /\ last.op = "quantity_call"
              /\ last.from = None
              /\ ~IsErr(last.res)
              /\ QuantityCall(last.res, last.self, last.self.units, last.context)
           \/ \E kwargs \in {EmptyDict, [k \in {X} |-> Num(R(1))]} : IsResolvable(<<X>>, kwargs)
SpecMap == InitMap /\ [][NextMap]_vars

\* the last operation converted a Quantity back to the units of the one it
\* was converted from, which have the dimensions of its own
WentRound ==
    /\ last.op = "quantity_call"
    /\ last.from # None
    /\ last.units = last.from.units
    /\ units_dimensions(last.self.units) = units_dimensions(last.units)

\* C22: a Quantity converted to units of the same dimensions and back has
\* the value it started with, whatever conversion maps are registered.
C22_RoundTrip ==
    WentRound => (~IsErr(last.res) /\ last.res.value = last.from.value)


(***************************************************************************)
(* Units objects built from strings, from mappings and by the operators    *)
(***************************************************************************)
\* 'm*s', 's*m', 'm/s', 'm*s^-1'
HashStrings ==
    {<<Term("", "m", << >>), Term("*", "s", << >>)>>,
     <<Term("", "s", << >>), Term("*", "m", << >>)>>,
     <<Term("", "m", << >>), Term("/", "s", << >>)>>,
     <<Term("", "m", << >>), Term("*", "s", <<-1>>)>>}
FromStrings == {Units(StrArg(s)) : s \in HashStrings}
UnitsMetre == Units(StrArg(<<Term("", "m", << >>)>>))
UnitsSecond == Units(StrArg(<<Term("", "s", << >>)>>))
\* Units(u.units) and Units(u) for u = Units('s*m'), and the results of
\* m * s, s * m, m / s, (m / s) ** 1 and (s / m) ** -1
FromUnits ==
    {Units(DictArg(Units(StrArg(s)).units)) :
         s \in {<<Term("", "s", << >>), Term("*", "m", << >>)>>}}
        \cup {Units(Units(StrArg(s))) : s \in {<<Term("", "s", << >>), Term("*", "m", << >>)>>}}
        \cup {Units_mul(UnitsMetre, UnitsSecond), Units_mul(UnitsSecond, UnitsMetre),
              Units_div(UnitsMetre, UnitsSecond),
              Units_pow(Units_div(UnitsMetre, UnitsSecond), 1),
              Units_pow(Units_div(UnitsSecond, UnitsMetre), -1)}

InitHash == Start(New(TRUE, <<X, Y, Z>>))
NextHash == \E a \in FromStrings \cup FromUnits, b \in FromStrings \cup FromUnits : UnitsEq(a, b)
SpecHash == InitHash /\ [][NextHash]_vars

\* C23: two Units objects that compare equal have the same hash, however
\* they were constructed.
C23_EqualUnitsHashEqual ==
    (last.op = "units_eq" /\ last.res) => last.hash_a = last.hash_b


\* the last conversion found a registered map whose application raised
MapRaised == last.op = "quantity_call" /\ last.map # None /\ last.raised # None

\* C24: an error raised while applying a registered conversion map reaches
\* the caller of the conversion instead of being replaced by the linear
\* scaling, and is_resolvable answers True or False and never raises.
C24_ErrorsReachCaller ==
    /\ MapRaised => last.res = last.raised
    /\ last.op = "is_resolvable" => last.res \in {Bool(TRUE), Bool(FALSE)}


(***************************************************************************)
(* Bounds on functions of an overridden parameter: y = x**2 and z = y      *)
(***************************************************************************)
\* p << {'x': 2, 'y': lambda x: x**2, 'z': lambda y: y}
ForwardStore ==
    [k \in {X, Y, Z} |-> IF k = X THEN Num(R(2))
                         ELSE IF k = Y THEN Fn(F(<<X>>, FALSE, "sq"))
                         ELSE Fn(F(<<Y>>, FALSE, "sum"))]
\* the definitions given to set_raw afterwards
ForwardDefs == {<<X, Num(R(2))>>, <<X, Num(R(3))>>, <<Y, Fn(F(<<X>>, FALSE, "sum"))>>}
\* the overrides of x
ForwardKwargs == {[k \in {X} |-> Num(R(150))], [k \in {X} |-> Num(R(5))]}

InitForward == Start(set(New(TRUE, <<X, Y, Z>>), ForwardStore).c)
NextForward == \/ \E d \in ForwardDefs : SetRaw(d[1], d[2])
               \/ \E key \in {Y, Z} : SetBounds(key, Num(R(0)), Num(R(100)), TRUE, FALSE, TRUE)
               \/ \E a \in {X, Y, Z}, kwargs \in ForwardKwargs : Get(<<a>>, kwargs)
               \/ \E kwargs \in ForwardKwargs : Set(kwargs)
SpecForward == InitForward /\ [][NextForward]_vars

\* q is stored as a function that names a as an argument
NamesArgument(q, a) ==
    /\ q \in DOMAIN parameters /\ parameters[q].t = "fn"
    /\ \E i \in 1..Len(parameters[q].f.args) : get_pam_name(parameters[q].f.args[i]) = a

\* the function q depends on a, directly or through another function
ReachesThrough(q, a) ==
    NamesArgument(q, a) \/ \E r \in Names : NamesArgument(q, r) /\ NamesArgument(r, a)

\* q is bounded under the error policy, depends on a, and is outside its
\* bound when retrieved under the overrides kw
OutsideUnder(q, a, kw) ==
    /\ ~parameters_bounds.none /\ q \in DOMAIN parameters_bounds.d
    /\ ReachesThrough(q, a)
    /\ get(Obj, Obj, <<q>>, kw, default_scaled).r = Err("ParameterOutsideBoundsError")

\* C26: a get or a set that overrides x fails with ParameterOutsideBounds if
\* some bounded function of x, direct or not, is outside its bound under the
\* overrides, whichever stored names the call asks for.
C26_SuperiorsChecked ==
    [][(/\ last'.op \in {"get", "set"}
        /\ last'.op = "get" => \A i \in 1..Len(last'.args) : last'.args[i] \in DOMAIN parameters
        /\ \E q \in Names : OutsideUnder(q, X, last'.kwargs))
          => last'.res = Err("ParameterOutsideBoundsError")]_vars


(***************************************************************************)
(* The function-result cache: x = 2 and y = x**2 with cache(y=True)        *)
(***************************************************************************)
\* p << {'x': 2, 'y': lambda x: x**2}
MemoStore == [k \in {X, Y} |-> IF k = X THEN Num(R(2)) ELSE Fn(F(<<X>>, FALSE, "sq"))]
\* the definitions given to set_raw: y = lambda x: x, y = lambda _x: _x
MemoDefs ==
    {<<X, Num(R(3))>>, <<X, Qty(R(1), U_km)>>,
     <<Y, Fn(F(<<X>>, FALSE, "sum"))>>, <<Y, Fn(F(<<Under(X)>>, FALSE, "sum"))>>}
MemoKwargs == {EmptyDict, [k \in {X} |-> Num(R(3))]}

InitMemo == Start(cache(set(New(TRUE, <<X, Y, Z>>), MemoStore).c, Y, TRUE))
NextCache == \/ \E d \in MemoDefs : SetRaw(d[1], d[2])
             \/ Set([k \in {X} |-> Num(R(5))])
             \/ \E n \in {X, Y} : Forget(n)
             \/ Scaling(Qty(R(1), U_km))
             \/ \E a \in {Y, Under(Y)}, kwargs \in MemoKwargs : Get(<<a>>, kwargs)
             \/ \E on \in BOOLEAN : Cache(Y, on)
SpecCache == InitMemo /\ [][NextCache]_vars

\* the same within scopes
NextMemo == \/ \E d \in MemoDefs : SetRaw(d[1], d[2])
            \/ \E kwargs \in MemoKwargs : Get(<<Y>>, kwargs)
            \/ Enter
            \/ Exit
SpecMemo == InitMemo /\ [][NextMemo]_vars

\* the object P with every derived cache empty: the dependency and superior
\* lists, the scaled values, the unit scalings and the function results
Recomputed(P) ==
    [P EXCEPT !.cache_deps = EmptyDict, !.cache_sups = EmptyDict,
              !.cache_scaled = EmptyDict, !.scaling_cache = EmptyDict,
              !.cache_funcs = [k \in DOMAIN @ |-> None]]

\* C27: after an __exit__ a get of any name returns what the restored
\* definitions give, as if no derived cache held anything.
C27_ExitClearsCaches ==
    [][last'.op = "exit" => Answers(Obj') = Answers(Recomputed(Obj'))]_vars


\* the object P with the function-result cache disabled for every name
Uncached(P) == [P EXCEPT !.cache_funcs = EmptyDict]

\* C29: a get returns what it would return with the function-result cache
\* disabled, after any sequence of set, set_raw, forget, scaling, cache and
\* get operations.
C29_CacheUnobservable ==
    [][last'.op = "get" =>
          last'.res = get(Uncached(Obj), Uncached(Obj), last'.args, last'.kwargs,
                          default_scaled).r]_vars


(***************************************************************************)
(* Termination of retrieval on the stores that definitions can build       *)
(***************************************************************************)
\* the (name, value) pairs given to set_raw and set
DepthInputs ==
    {<<Y, Fn(F(<<X>>, FALSE, "sum"))>>,          \* y = lambda x: x
     <<Z, Fn(F(<<Y>>, FALSE, "sum"))>>,          \* z = lambda y: y
     <<X, Fn(F(<<Y>>, FALSE, "sum"))>>,          \* x = lambda y: y
     <<X, Fn(F(<<Under(Y)>>, FALSE, "sum"))>>,   \* x = lambda _y: _y
     <<Y, Fn(F(<<X, Y>>, TRUE, "sum"))>>,        \* y = lambda x, y=None: x if y is None else y
     <<X, Num(R(3))>>}

\* the overrides given to a call
DepthKwargs == {EmptyDict, [k \in {Y} |-> Num(R(2))]}

InitDepth == Start(New(TRUE, <<X, Y, Z>>))

NextDepth ==
    \/ \E d \in DepthInputs : SetRaw(d[1], d[2])
    \/ \E d \in DepthInputs : Set([k \in {d[1]} |-> d[2]])
    \/ \E param \in {X, Y} : Forget(param)
    \/ \E a \in Names, kwargs \in DepthKwargs : Get(<<a>>, kwargs)

SpecDepth == InitDepth /\ [][NextDepth]_vars

\* C30: on every store that accepted set_raw, set and forget operations
\* build, a call terminates within the depth of the dependency graph: no
\* retrieval runs into the interpreter's recursion limit.
C30_RetrievalTerminates ==
    last.op = "get" => last.res # Err("RuntimeError")


(***************************************************************************)
(* Parameter names                                                         *)
(***************************************************************************)
\* the names given to set and set_raw
NameKeys ==
    {X, Under(X), <<"x", "1">>, <<"x", "_">>, <<"1", "x">>, <<"x", "-">>, <<"x", "\n">>}

\* the dicts given to set and set_raw: one name, or y with another name
NameDicts ==
    {[k \in {n} |-> Num(R(3))] : n \in NameKeys}
    \cup {[k \in {Y, n} |-> Num(R(3))] : n \in NameKeys}

InitName ==
    Start(New(TRUE, <<X, Y, <<"x", "1">>, <<"x", "_">>, <<"1", "x">>, <<"x", "-">>,
                      <<"x", "\n">>>>))

NextName ==
    \/ \E kwargs \in NameDicts : SetRawDict(kwargs)
    \/ \E kwargs \in NameDicts : Set(kwargs)
    \/ \E n \in {X, Y} : Forget(n)

SpecName == InitName /\ [][NextName]_vars

\* the name matches ^[A-Za-z][A-Za-z0-9_]*$
Identifier(k) == re_match(Letters, k)

\* the step is a set or set_raw call with a name that is no identifier
SetsInvalid ==
    /\ last'.op \in {"set", "set_raw_dict"}
    /\ \E k \in DOMAIN last'.kwargs : ~Identifier(k)

\* C31 as stated: every stored name is an identifier, and a set or set_raw
\* call with a name that is none fails with ParameterInvalid and stores nothing.
C31_InvalidNamesRejected ==
    [][/\ \A k \in DOMAIN parameters' : Identifier(k)
       /\ SetsInvalid => /\ last'.res = Err("ParameterInvalidError")
                         /\ parameters' = parameters]_vars


\* the step is a set call (not set_raw) whose names all pass with a leading
\* underscore allowed, one of them having one
SetsUnderscored ==
    /\ last'.op = "set"
    /\ \A k \in DOMAIN last'.kwargs : re_match(Letters \cup {"_"}, k)
    /\ \E k \in DOMAIN last'.kwargs : k[1] = "_"

\* C31 as the code has it: every stored name is an identifier, and a set or
\* set_raw call with a name that is none stores nothing and fails, with
\* ValueError when it is a set call whose only defect is a leading underscore
\* and with ParameterInvalid otherwise.
C31_InvalidNamesFail ==
    [][/\ \A k \in DOMAIN parameters' : Identifier(k)
       /\ SetsInvalid => /\ last'.res = IF SetsUnderscored THEN Err("ValueError")
                                         ELSE Err("ParameterInvalidError")
                         /\ parameters' = parameters]_vars

\* a call naming y and an invalid name has failed on a store that is not empty
C31_Witness ==
    /\ last.op \in {"set", "set_raw_dict"}
    /\ Y \in DOMAIN last.kwargs
    /\ \E k \in DOMAIN last.kwargs : ~Identifier(k)
    /\ last.res = Err("ParameterInvalidError")
    /\ X \in DOMAIN parameters
    /\ Y \notin DOMAIN parameters


(***************************************************************************)
(* Forgetting a parameter that others were computed from                   *)
(***************************************************************************)
\* p << {'x': 2, 'y': lambda x: x**2}
ForgetStore ==
    [k \in {X, Y} |-> IF k = X THEN Num(R(2)) ELSE Fn(F(<<X>>, FALSE, "sq"))]
\* the definitions given to set_raw afterwards
ForgetDefs == {<<X, Num(R(3))>>, <<Y, Fn(F(<<X>>, FALSE, "sum"))>>}
\* the overrides of a call
ForgetKwargs == {EmptyDict, [k \in {X} |-> Num(R(5))], [k \in {X} |-> Num(R(150))]}

InitForget == Start(set(New(TRUE, <<X, Y, Z>>), ForgetStore).c)
NextForget == \/ \E d \in ForgetDefs : SetRaw(d[1], d[2])
              \/ SetBounds(Y, Num(R(0)), Num(R(100)), TRUE, FALSE, TRUE)
              \/ \E a \in {X, Y}, kwargs \in ForgetKwargs : Get(<<a>>, kwargs)
              \/ \E n \in {X, Y} : Forget(n)
SpecForget == InitForget /\ [][NextForget]_vars

\* the object P with the dependency and superior lists computed afresh
Relisted(P) == [P EXCEPT !.cache_deps = EmptyDict, !.cache_sups = EmptyDict]

\* what p(a, **kwargs) returns for every stored name a and every override
Retrievals(P) ==
    [a \in DOMAIN P.parameters, kwargs \in ForgetKwargs |->
        get(P, P, <<a>>, kwargs, P.default_scaled).r]

\* C32: after a forget the retrieval of every remaining parameter, with or
\* without overrides, gives what the current definitions give: the memoised
\* dependency and superior lists hold nothing of the forgotten parameter.
C32_ForgetForgetsLists ==
    [][last'.op = "forget" => Retrievals(Obj') = Retrievals(Relisted(Obj'))]_vars


(***************************************************************************)
(* Bounds of a constant held in kilometres, retrieved in both forms        *)
(***************************************************************************)
\* p << {'x': (5, 'km')}
VerdictStore == [k \in {X} |-> Qty(R(5), U_km)]
\* the constants given to x afterwards
VerdictValues == {Qty(R(5), U_km), Qty(R(20), U_km), Qty(R(5), U_m)}
\* set_bounds(x=((0,'km'), (10,'km'))) with error=True, and with clip=True
VerdictBounds ==
    {<<X, Qty(R(0), U_km), Qty(R(10), U_km), TRUE, FALSE, TRUE>>,
     <<X, Qty(R(0), U_km), Qty(R(10), U_km), FALSE, TRUE, TRUE>>}

InitVerdict == Start(set(New(TRUE, <<X, Y, Z>>), VerdictStore).c)
NextVerdict == \/ \E v \in VerdictValues : SetRaw(X, v)
               \/ \E b \in VerdictBounds : SetBounds(b[1], b[2], b[3], b[4], b[5], b[6])
               \/ Scaling(Qty(R(1), U_km))
               \/ \E a \in {X, Under(X)} : Get(<<a>>, EmptyDict)
SpecVerdict == InitVerdict /\ [][NextVerdict]_vars

\* the object P with no scaled value memoised
Unscaled(P) == [P EXCEPT !.cache_scaled = EmptyDict]

\* x is a stored constant with a bound registered
BoundedConstant ==
    /\ X \in DOMAIN parameters /\ parameters[X].t = "qty"
    /\ ~parameters_bounds.none /\ X \in DOMAIN parameters_bounds.d

\* C33: the retrieval of a bounded constant in scaled form and in dimensional
\* form give the same verdict: both fail, or both answer and the scaled
\* number is the dimensional quantity divided by the scaling of its units.
C33_SameVerdictInBothForms ==
    BoundedConstant =>
        IF IsErr(Asked(Unscaled(Obj), X, TRUE)) \/ IsErr(Asked(Unscaled(Obj), X, FALSE))
        THEN Asked(Unscaled(Obj), X, TRUE) = Asked(Unscaled(Obj), X, FALSE)
        ELSE Agree(Obj, Asked(Unscaled(Obj), X, TRUE), Asked(Unscaled(Obj), X, FALSE))


(***************************************************************************)
(* Units objects built step by step                                        *)
(***************************************************************************)
\* 'm/m', 'm*m^-1', 'm*s', 'm/s' and the mapping {'m': 1, 's': -1}
ZeroArgs ==
    {StrArg(<<Term("", "m", << >>), Term("/", "m", << >>)>>),
     StrArg(<<Term("", "m", << >>), Term("*", "m", <<-1>>)>>),
     StrArg(<<Term("", "m", << >>), Term("*", "s", << >>)>>),
     StrArg(<<Term("", "m", << >>), Term("/", "s", << >>)>>),
     DictArg(<<<<"m", 1, TRUE>>, <<"s", -1, TRUE>>>>)}

\* the operations that build a Units object
UnitsOps == {"units_new", "units_mul", "units_div", "units_pow"}

\* the Units objects at hand: m, s, and the one built last
ZeroOperands ==
    {UnitsMetre, UnitsSecond} \cup (IF last.op \in UnitsOps THEN {last.res} ELSE {})

InitZero == Start(New(TRUE, <<X, Y, Z>>))
NextZero == \/ \E arg \in ZeroArgs : UnitsBuild(arg)
            \/ \E a \in ZeroOperands, b \in ZeroOperands : UnitsTimes(a, b)
            \/ \E a \in ZeroOperands, b \in ZeroOperands : UnitsOver(a, b)
            \/ \E a \in ZeroOperands, k \in {-1, 0, 2} : UnitsPower(a, k)
SpecZero == InitZero /\ [][NextZero]_vars

\* C34: the unit-to-exponent map of every Units object built by parsing a
\* string, from a mapping, or by multiplication, division or exponentiation
\* has no entry with exponent 0.
C34_NoZeroExponent ==
    last.op \in UnitsOps => \A i \in 1..Len(last.res.units) : last.res.units[i][2] # 0


(***************************************************************************)
(* The Units objects that the catalog hands out                            *)
(***************************************************************************)
\* 'm', 'm*s' and the Units object for metres
InstanceArgs ==
    {StrArg(<<Term("", "m", << >>)>>),
     StrArg(<<Term("", "m", << >>), Term("*", "s", << >>)>>),
     UnitsMetre}

InitInstance == Start(New(TRUE, <<X, Y, Z>>))
NextInstance == \/ AddScaling(Length, PerTime, R(3), "c")
                \/ SetUnitsContext("c")
                \/ \E arg \in InstanceArgs : UnitsCall(arg)
SpecInstance == InitInstance /\ [][NextInstance]_vars

\* the step is a call of the catalog with a string
CallsString == last'.op = "units_call" /\ last'.arg.t = "str"

\* C35: a call of the catalog with a string returns the instance that the
\* call before it returned for that string, and the instance stored for the
\* string if there is one; a set_context that succeeds leaves the cache of
\* parsed strings empty, and the call after it builds a new instance.
C35_SameInstanceUntilSwitch ==
    [][/\ (CallsString /\ last.op = "units_call" /\ last.arg = last'.arg)
              => last'.res = last.res
       /\ (CallsString /\ last'.arg.terms \in DOMAIN unit_dicts[units._cache])
              => last'.res = unit_dicts[units._cache][last'.arg.terms]
       /\ (last'.op = "set_units_context" /\ last'.res = Ok)
              => unit_dicts'[units'._cache] = EmptyDict
       /\ (CallsString /\ last.op = "set_units_context" /\ last.res = Ok)
              => last'.res.id = nops]_vars

\* after a context switch a string was asked for twice, and the second call
\* returned the instance of the first
C35_Witness ==
    /\ units._context_current = "c"
    /\ last.op = "units_call" /\ last.arg.t = "str"
    /\ last.res.id = nops - 2


(***************************************************************************)
(* Units added under an identifier that is in use                          *)
(***************************************************************************)
\* two units that share the abbreviation ft
ReplaceUnits ==
    {Unit("foot", "ft", R(3), [d \in {"length"} |-> 1]),
     Unit("fathom", "ft", R(18), [d \in {"length"} |-> 1])}
\* 'ft', 'm/ft' and 'yd', which no unit has
ReplaceArgs ==
    {StrArg(<<Term("", "ft", << >>)>>),
     StrArg(<<Term("", "m", << >>), Term("/", "ft", << >>)>>),
     StrArg(<<Term("", "yd", << >>)>>)}

InitReplace == Start(New(TRUE, <<X, Y, Z>>))
NextReplace == \/ \E u \in ReplaceUnits : UnitAdd(u)
               \/ \E arg \in ReplaceArgs : UnitsCall(arg)
               \/ AddScaling(Length, PerTime, R(3), "c")
               \/ SetUnitsContext("c")
SpecReplace == InitReplace /\ [][NextReplace]_vars

\* C36: the Units object that a call of the catalog returns for a string is
\* made of the Unit objects that its identifiers stand for at the time of
\* the call, whatever was registered and parsed before.
C36_CallUsesCurrentUnit ==
    [][(CallsString /\ ~IsErr(last'.res))
          => \A a \in DOMAIN last'.res.found :
                 last'.res.found[a] = dispenser_get(unit_dicts', units', a)]_vars

(***************************************************************************)
(* Lookups in the catalog: scale and conversion_map in the active or the   *)
(* queried context and in no context                                       *)
(***************************************************************************)
\* p.units.scale(dim_from, dim_to, context)
DispenserScale(dim_from, dim_to, cx) ==
    /\ More
    /\ Commit(Obj)
    /\ last' = [op |-> "dispenser_scale", dim_from |-> dim_from, dim_to |-> dim_to,
                context |-> cx,
                res |-> dispenser_scale(unit_dicts[units._scalings], units._context_current,
                                        dim_from, dim_to, cx),
                warn |-> {}]
    /\ UNCHANGED <<context_save, order, entered, get_kwargs, unit_dicts, scale_cache,
                   entered_units>>
    /\ nops' = nops + 1

\* the end of a conversion_map recorded as l, with the outcome c
DoneMap(l, c) ==
    /\ Commit(Obj)
    /\ unit_dicts' = c.H
    /\ scale_cache' = c.cache
    /\ last' = [l EXCEPT !.res = c.r]
    /\ UNCHANGED <<context_save, order, entered, get_kwargs, entered_units>>
    /\ nops' = nops + 1

\* p.units.conversion_map(unit_from, unit_to, absolute, context)
ConversionMap(unit_from, unit_to, absolute, cx) ==
    /\ More
    /\ DoneMap([op |-> "conversion_map", unit_from |-> unit_from, unit_to |-> unit_to,
                absolute |-> absolute, context |-> cx, res |-> Ok, warn |-> {}],
               conversion_map(unit_dicts, units, scale_cache, unit_from, unit_to, absolute, cx))

\* a scaling in the context c and another in no context; maps from m to km:
\* a relative one in the context c, a relative and an absolute one in none
LookupScalings == {<<Length, PerTime, R(3), "c">>, <<Length, Time, R(7), Global>>}
LookupConversions ==
    {<<Metre, KiloMetre, Lambda(<<"v">>, "scaled"), FALSE, "c">>,
     <<Metre, KiloMetre, Lambda(<<"v">>, "square"), FALSE, Global>>,
     <<Metre, KiloMetre, Lambda(<<"v">>, "offset"), TRUE, Global>>}
LookupContexts == {False, Global, "c"}

InitLookup == Start(New(TRUE, <<X, Y, Z>>))
NextLookup ==
    \/ \E s \in LookupScalings : AddScaling(s[1], s[2], s[3], s[4])
    \/ \E c \in LookupConversions : AddConversionMap(c[1], c[2], c[3], c[4], c[5])
    \/ SetUnitsContext("c")
    \/ \E to \in {Time, PerTime}, cx \in LookupContexts : DispenserScale(Length, to, cx)
    \/ \E absolute \in BOOLEAN, cx \in LookupContexts :
          ConversionMap(Metre, KiloMetre, absolute, cx)
SpecLookup == InitLookup /\ [][NextLookup]_vars

\* the scaling from da to db that the context c defines, else None
ScalingIn(c, da, db) == IF Defines(c, da, db) THEN Num(Registered(c, da, db)) ELSE None

\* the map from a to b with the flag absolute that the maps registered in the
\* context c give, else None
MapIn(c, a, b, absolute) ==
    IF a \in unit_dicts[units._convertable_units] /\ c \in DOMAIN unit_dicts[units._conversions]
    THEN conversion_loop(unit_dicts[units._scalings], units._context_current, scale_cache,
                         unit_dicts[units._conversions][c], 1, a, b, absolute, c).c
    ELSE None

\* what a lookup is to return: what the context looked in first gives, else
\* what no context gives, else ValueError
Looked(first, global) ==
    IF first # None THEN first ELSE IF global # None THEN global ELSE Err("ValueError")

\* C37: scale(dim_from, dim_to) and conversion_map(unit_from, unit_to,
\* absolute) return what the active or the queried context gives for their
\* arguments, else what no context gives for the same arguments, the flag
\* absolute included, and raise ValueError only if neither gives anything.
C37_LookupFallsBack ==
    [][/\ last'.op = "dispenser_scale"
          => last'.res = Looked(ScalingIn(Queried(last'.context), last'.dim_from, last'.dim_to),
                                ScalingIn(Global, last'.dim_from, last'.dim_to))
       /\ last'.op = "conversion_map"
          => last'.res = Looked(MapIn(Queried(last'.context), last'.unit_from,
                                      last'.unit_to, last'.absolute),
                                MapIn(Global, last'.unit_from, last'.unit_to,
                                      last'.absolute))]_vars

\* the mappings registered with add_conversion_map(a, b, f, absolute, c)
MappingsIn(c, a, b, absolute) ==
    IF c \in DOMAIN unit_dicts[units._conversions]
    THEN {unit_dicts[units._conversions][c][i][3] :
            i \in {j \in 1..Len(unit_dicts[units._conversions][c]) :
                     /\ unit_dicts[units._conversions][c][j][1] = a
                     /\ unit_dicts[units._conversions][c][j][2] = b
                     /\ unit_dicts[units._conversions][c][j][4] = absolute}}
    ELSE {}

\* the last operation queried a map that had been registered with the units,
\* the flag absolute and the context of the query
QueriedRegistered ==
    /\ last.op = "conversion_map"
    /\ last.context # False
    /\ MappingsIn(last.context, last.unit_from, last.unit_to, last.absolute) # {}

\* C38: conversion_map(unit_from, unit_to, absolute, context) returns a map
\* registered with add_conversion_map(unit_from, unit_to, f, absolute,
\* context) whenever one has been registered before the query, whatever
\* queries were made, and failed, before the registration.
C38_RegisteredMapReturned ==
    QueriedRegistered
    => /\ last.res.t = "conversion"
       /\ last.res.context = last.context
       /\ last.res.mapping \in MappingsIn(last.context, last.unit_from, last.unit_to,
                                          last.absolute)

(***************************************************************************)
(* The basis of the catalog: the Unit that stands for each dimension       *)
(***************************************************************************)
\* a unit given to basis as a string
Named(name) == [t |-> "name", name |-> name]

\* UnitDispenser.get for a string or a Unit object
unit_get(H, D, unit) == IF unit.t = "Unit" THEN unit ELSE dispenser_get(H, D, unit.name)

\* UnitDispenser.basis(key=val) after unit = self.get(val): the heap
basis_got(H, D, key, unit) ==
    IF IsErr(unit) THEN [r |-> unit, H |-> H]
    ELSE [r |-> None, H |-> [H EXCEPT ![D._dimensions] = dispenser_basis(@, key, unit)]]

\* p.units.basis(key=val)
Basis(key, val) ==
    /\ More
    /\ Commit(Obj)
    /\ unit_dicts' = basis_got(unit_dicts, units, key, unit_get(unit_dicts, units, val)).H
    /\ last' = [op |-> "basis", key |-> key, val |-> val, warn |-> {},
                res |-> basis_got(unit_dicts, units, key, unit_get(unit_dicts, units, val)).r]
    /\ UNCHANGED <<context_save, order, entered, get_kwargs, scale_cache, entered_units>>
    /\ nops' = nops + 1

\* two units of mass, one of mass per length and one of length, which are
\* added, and an ounce, which is not
Pound == Unit("pound", "lb", R(2), [d \in {"mass"} |-> 1])
Stone == Unit("stone", "st", R(28), [d \in {"mass"} |-> 1])
Load == Unit("load", "ld", R(1), [d \in {"mass", "length"} |-> IF d = "mass" THEN 1 ELSE -1])
Foot == Unit("foot", "ft", R(3), [d \in {"length"} |-> 1])
Ounce == Unit("ounce", "oz", R(1), [d \in {"mass"} |-> 1])
BasisUnits == {Pound, Stone, Load, Foot}
\* what basis is given: identifiers and Unit objects
BasisValues == {Named("lb"), Named("st"), Named("ld"), Named("ft"), Named("oz"), Stone, Ounce}

InitBasis == Start(New(TRUE, <<X, Y, Z>>))
NextBasis == \/ \E u \in BasisUnits : UnitAdd(u)
             \/ \E key \in {"mass", "length"}, val \in BasisValues : Basis(key, val)
SpecBasis == InitBasis /\ [][NextBasis]_vars

\* the Units added to the catalog: those it is built with and those added
Added(custom) ==
    {BuiltinUnits[u] : u \in DOMAIN BuiltinUnits} \cup {custom[i] : i \in 1..Len(custom)}

\* the dimension vector {d: 1}
Only(d) == [e \in {d} |-> 1]

\* the basis dimensions is well formed, given the Units added
BasisWellFormed(dimensions, custom) ==
    \A d \in DOMAIN dimensions :
        /\ dimensions[d] = None \/ dimensions[d].dimensions = Only(d)
        /\ dimensions[d] # None <=> \E u \in Added(custom) : u.dimensions = Only(d)

\* the step from the basis dimensions with the Units added to the basis
\* after is one that the last operation allows
BasisStep(dimensions, custom, after, l) ==
    /\ l.op = "unit_add"
       => \A d \in DOMAIN after :
             IF l.unit.dimensions = Only(d)
                /\ ~\E u \in Added(custom) : u.dimensions = Only(d)
             THEN after[d] = l.unit
             ELSE d \in DOMAIN dimensions => after[d] = dimensions[d]
    /\ l.op = "basis"
       => \A d \in DOMAIN after :
             IF d = l.key /\ ~IsErr(l.res)
                /\ unit_get(unit_dicts, units, l.val).dimensions = Only(d)
             THEN after[d] = unit_get(unit_dicts, units, l.val)
             ELSE d \in DOMAIN dimensions /\ after[d] = dimensions[d]

\* C39: in every state of the catalog the basis of a known dimension d is
\* None or a Unit of dimensions {d: 1}, and it is a Unit iff some added Unit
\* has the dimensions {d: 1}; the first such Unit added becomes the basis and
\* stays it until basis(d=unit) replaces it, and basis(d=unit) with a unit of
\* other dimensions leaves the basis as it is.
C39_BasisOfDimension ==
    [][/\ BasisWellFormed(unit_dicts'[units'._dimensions], units_custom')
       /\ BasisStep(unit_dicts[units._dimensions], units_custom,
                    unit_dicts'[units'._dimensions], last')]_vars
====
